---------------------------- MODULE Spec2Model ----------------------------
(***************************************************************************)
(* A model of macauff's probabilistic pairing core:                        *)
(*   - counterpart_pairing.source_pairing (the pairing stage driver);      *)
(*   - perturbation_auf.make_perturb_aufs (the perturbation-AUF driver),   *)
(*     and, each with a specification of its own, the functions it calls:  *)
(*     create_single_perturb_auf, download_trilegal_simulation,            *)
(*     calculate_local_density,                                            *)
(*     _calculate_magnitude_offsets, and its model reference index loop;   *)
(*   - group_sources._load_cumulative_grid_cutouts (the grid cutout) and   *)
(*     get_max_overlap (the overlap counts);                               *)
(*   - fit_astrometry.AstrometricCorrections (its argument checks).        *)
(* Floating-point quantities are kept as small integers: a probability,    *)
(* flux or likelihood ratio only matters through the comparisons the code  *)
(* makes on it, and those are kept (>= 0, >= -30, < large_len + 1, isnan). *)
(* Python indices are 0-based as in the source; arrays are TLA+ sequences  *)
(* (position k of a sequence is element k-1 of the numpy array).           *)
(***************************************************************************)
EXTENDS Integers, Sequences, FiniteSets, TLC

(***************************************************************************)
(* Bounds of the model.                                                    *)
(***************************************************************************)
\* largest catalogue "a" explored by the pairing stage
MaxLenA == 2
\* largest catalogue "b" explored by the pairing stage
MaxLenB == 2

(***************************************************************************)
(* Program constants.                                                      *)
(***************************************************************************)
\* probabilities and fluxes are kept when >= 0 (counterpart_pairing.py:137)
ProbMin == 0
\* eta and xi are kept when >= -30 (counterpart_pairing.py:138)
EtaXiMin == -30
\* n_fracs, the number of relative contamination fluxes (perturbation_auf.py:481)
NFracs == 2

(***************************************************************************)
(* Generic helpers.                                                        *)
(***************************************************************************)
Min2(x, y) == IF x <= y THEN x ELSE y

Max2(x, y) == IF x >= y THEN x ELSE y

SetMin(S) == CHOOSE x \in S : \A y \in S : x <= y

RECURSIVE SeqSum(_)
SeqSum(s) == IF s = <<>> THEN 0 ELSE s[1] + SeqSum(Tail(s))

RECURSIVE SortedSeq(_)
SortedSeq(S) == IF S = {} THEN <<>>
                ELSE <<SetMin(S)>> \o SortedSeq(S \ {SetMin(S)})

RECURSIVE Flatten(_)
Flatten(ss) == IF ss = <<>> THEN <<>> ELSE ss[1] \o Flatten(Tail(ss))

SeqRange(s) == {s[k] : k \in DOMAIN s}

\* number of TRUE entries of a boolean array: np.sum(mask)
RECURSIVE CountTrue(_)
CountTrue(m) == IF m = <<>> THEN 0
                ELSE (IF m[1] THEN 1 ELSE 0) + CountTrue(Tail(m))

\* numpy boolean-mask indexing variable[mask] (the lengths agree)
RECURSIVE BoolIndex(_, _)
BoolIndex(variable, mask) ==
    IF variable = <<>> \/ mask = <<>> THEN <<>>
    ELSE (IF mask[1] THEN <<variable[1]>> ELSE <<>>)
         \o BoolIndex(Tail(variable), Tail(mask))

VARIABLES
    \* ---- source_pairing ----
    ppc,          \* position in source_pairing
    inp,          \* the two catalogues and the candidate edges between them
    gsd,          \* group_sources_data: alist, blist, agrplen, bgrplen, lenreject*
    cpfout,       \* the arrays returned by cpf.find_island_probabilities
    filt,         \* countfilter, afieldfilter, bfieldfilter
    saved,        \* file name -> array saved under joint_folder_path/pairing
    warns,        \* warnings.warn calls, in order
    praised,      \* exception raised by source_pairing, "none" if none
    \* ---- make_perturb_aufs ----
    mpc,          \* position in make_perturb_aufs
    cfg,          \* the keyword arguments: which are None, and the flags
    cat_folder,   \* con_cat_astro, con_cat_photo and magref as read from cat_folder
    loop,         \* i (sky tile) and j (filter) of the main loop, 0-based
    trifile,      \* per tile: os.path.isfile of trilegal_auf_simulation_faint.dat
    modelrefinds, \* the (3, n_sources) model reference index
    arraylengths, \* arraylengths[j][i], filter j and tile i
    outputs,      \* perturb_auf_outputs
    events,       \* file loads, folder creations, downloads and simulation calls
    mraised,      \* exception raised by make_perturb_aufs, NoError if none
    \* ---- the functions make_perturb_aufs and the grouping stage call ----
    csp,          \* create_single_perturb_auf: its locals, over two identical calls
    dts,          \* download_trilegal_simulation: its locals and the provider calls
    cld,          \* calculate_local_density: its locals and the sub-tile loop
    asm,          \* the model reference index loop at the end of make_perturb_aufs
    lcg,          \* _load_cumulative_grid_cutouts: its inputs and outputs
    cmo,          \* _calculate_magnitude_offsets: its inputs, its loop and its result
    gmo,          \* get_max_overlap: the two catalogues and the two count arrays
    acs           \* AstrometricCorrections: its arguments, construction and call

pvars == <<ppc, inp, gsd, cpfout, filt, saved, warns, praised>>

mvars == <<mpc, cfg, cat_folder, loop, trifile, modelrefinds, arraylengths, outputs,
           events, mraised>>

\* the variables of the called functions
xvars == <<csp, dts, cld, asm, lcg, cmo, gmo, acs>>

vars == <<ppc, inp, gsd, cpfout, filt, saved, warns, praised,
          mpc, cfg, cat_folder, loop, trifile, modelrefinds, arraylengths, outputs,
          events, mraised, csp, dts, cld, asm, lcg, cmo, gmo, acs>>

NoError == [type |-> "none", param |-> "none"]

\* make_perturb_aufs not running
MpaIdle ==
    /\ mpc = "idle"
    /\ cfg = <<>>
    /\ cat_folder = <<>>
    /\ loop = <<>>
    /\ trifile = <<>>
    /\ modelrefinds = <<>>
    /\ arraylengths = <<>>
    /\ outputs = <<>>
    /\ events = <<>>
    /\ mraised = NoError

\* none of the called functions running on its own
CalledIdle ==
    /\ csp = <<>>
    /\ dts = <<>>
    /\ cld = <<>>
    /\ asm = <<>>
    /\ lcg = <<>>
    /\ cmo = <<>>
    /\ gmo = <<>>
    /\ acs = <<>>

\* source_pairing not running
PairingIdle ==
    /\ ppc = "idle"
    /\ inp = <<>>
    /\ gsd = <<>>
    /\ cpfout = <<>>
    /\ filt = <<>>
    /\ saved = <<>>
    /\ warns = <<>>
    /\ praised = "none"

(***************************************************************************)
(* Island grouping (make_island_groupings), the producer of                *)
(* group_sources_data.  A candidate edge joins an a source and a b source; *)
(* islands are the connected components; sources rejected upstream are in  *)
(* no island and are only counted.                                         *)
(***************************************************************************)
ASources(in) == 0 .. in.big_len_a - 1

BSources(in) == 0 .. in.big_len_b - 1

LiveNodes(in) == ({"a"} \X (ASources(in) \ in.rejecta))
                 \cup ({"b"} \X (BSources(in) \ in.rejectb))

Linked(in, n, m) ==
    \/ n[1] = "a" /\ m[1] = "b" /\ <<n[2], m[2]>> \in in.edges
    \/ n[1] = "b" /\ m[1] = "a" /\ <<m[2], n[2]>> \in in.edges

RECURSIVE Component(_, _)
Component(in, S) ==
    LET T == S \cup {m \in LiveNodes(in) : \E n \in S : Linked(in, n, m)}
    IN IF T = S THEN S ELSE Component(in, T)

IslandSets(in) == {Component(in, {n}) : n \in LiveNodes(in)}

NodeOrd(in, n) == IF n[1] = "a" THEN n[2] ELSE in.big_len_a + n[2]

IslandOrd(in, C) == SetMin({NodeOrd(in, n) : n \in C})

RECURSIVE OrderIslands(_, _)
OrderIslands(in, Cs) ==
    IF Cs = {} THEN <<>>
    ELSE LET first == CHOOSE C \in Cs :
                        \A D \in Cs : IslandOrd(in, C) <= IslandOrd(in, D)
         IN <<first>> \o OrderIslands(in, Cs \ {first})

AMembers(C) == SortedSeq({n[2] : n \in {m \in C : m[1] = "a"}})

BMembers(C) == SortedSeq({n[2] : n \in {m \in C : m[1] = "b"}})

make_island_groupings(in) ==
    LET isl == OrderIslands(in, IslandSets(in))
    IN [alist      |-> [k \in 1 .. Len(isl) |-> AMembers(isl[k])],
        blist      |-> [k \in 1 .. Len(isl) |-> BMembers(isl[k])],
        agrplen    |-> [k \in 1 .. Len(isl) |-> Len(AMembers(isl[k]))],
        bgrplen    |-> [k \in 1 .. Len(isl) |-> Len(BMembers(isl[k]))],
        lenrejecta |-> Cardinality(in.rejecta),
        lenrejectb |-> Cardinality(in.rejectb)]

\* the catalogues and candidate edges explored: every pair of catalogue
\* lengths, every set of rejected sources, every set of candidate edges
\* between the sources that are left
PairingInputs ==
    UNION { UNION { UNION { UNION {
        { [big_len_a |-> la, big_len_b |-> lb, rejecta |-> ra, rejectb |-> rb,
           edges |-> e] :
            e \in SUBSET (((0 .. la - 1) \ ra) \X ((0 .. lb - 1) \ rb)) } :
        rb \in SUBSET (0 .. lb - 1) } :
        ra \in SUBSET (0 .. la - 1) } :
        lb \in 0 .. MaxLenB } :
        la \in 0 .. MaxLenA }

(***************************************************************************)
(* cpf.find_island_probabilities, the Fortran pairing solver.  Per island  *)
(* it selects a one-to-one assignment of a members to b members; matched   *)
(* pairs fill the island's counterpart slots, unmatched members its field  *)
(* slots, and every slot beyond the true count keeps its initial value:    *)
(* the index large_len + 1 and FillValue in the value arrays.              *)
(***************************************************************************)
\* the value every output array is initialised to
FillValue == -100

\* the assignments the solver can select: one-to-one, never across islands
Matchings(g) ==
    { M \in SUBSET (UNION { SeqRange(g.alist[k]) \X SeqRange(g.blist[k]) :
                            k \in DOMAIN g.alist }) :
        \A p \in M : \A q \in M : (p[1] = q[1]) <=> (p[2] = q[2]) }

\* the posterior levels a valid entry can take (both pass the output cuts)
Levels == {0, 1}

GoodCountSlot(a, b, lvl) ==
    [aind |-> a, bind |-> b,
     acontamprob |-> [f \in 1 .. NFracs |-> ProbMin + lvl],
     bcontamprob |-> [f \in 1 .. NFracs |-> ProbMin + lvl],
     acontamflux |-> ProbMin + lvl, bcontamflux |-> ProbMin + lvl,
     probc |-> ProbMin + lvl, eta |-> EtaXiMin + lvl, xi |-> EtaXiMin + lvl,
     seps |-> 100 + 10 * a + b]

SentinelCountSlot(ll) ==
    [aind |-> ll + 1, bind |-> ll + 1,
     acontamprob |-> [f \in 1 .. NFracs |-> FillValue],
     bcontamprob |-> [f \in 1 .. NFracs |-> FillValue],
     acontamflux |-> FillValue, bcontamflux |-> FillValue,
     probc |-> FillValue, eta |-> FillValue, xi |-> FillValue,
     seps |-> FillValue]

GoodFieldSlot(i, lvl) ==
    [ind |-> i, prob |-> ProbMin + lvl, flux |-> ProbMin + lvl,
     seps |-> 100 + i, eta |-> EtaXiMin + lvl, xi |-> EtaXiMin + lvl]

SentinelFieldSlot(ll) ==
    [ind |-> ll + 1, prob |-> FillValue, flux |-> FillValue,
     seps |-> FillValue, eta |-> FillValue, xi |-> FillValue]

\* the counterpart slots of island k: its matched pairs, then sentinel
\* slots up to min(agrplen, bgrplen)
IslandCountSlots(g, k, M, lvl, ll) ==
    LET as == SortedSeq({p[1] : p \in {q \in M : q[1] \in SeqRange(g.alist[k])}})
        partners(a) == SortedSeq({q[2] : q \in {r \in M : r[1] = a}})
        good == Flatten([p \in 1 .. Len(as) |->
                           [c \in 1 .. Len(partners(as[p])) |->
                              GoodCountSlot(as[p], partners(as[p])[c], lvl)]])
        npad == Max2(0, Min2(g.agrplen[k], g.bgrplen[k]) - Len(good))
    IN good \o [p \in 1 .. npad |-> SentinelCountSlot(ll)]

\* the field slots of one side of one island: one per member
IslandFieldSlots(members, matched, lvl, ll) ==
    LET un == SortedSeq(SeqRange(members) \ matched)
    IN [p \in 1 .. Len(members) |->
          IF p <= Len(un) THEN GoodFieldSlot(un[p], lvl)
          ELSE SentinelFieldSlot(ll)]

\* the slots as the 22 arrays the Python side receives
ToArrays(cs, fa, fb) ==
    [acountinds  |-> [k \in DOMAIN cs |-> cs[k].aind],
     bcountinds  |-> [k \in DOMAIN cs |-> cs[k].bind],
     acontamprob |-> [f \in 1 .. NFracs |-> [k \in DOMAIN cs |-> cs[k].acontamprob[f]]],
     bcontamprob |-> [f \in 1 .. NFracs |-> [k \in DOMAIN cs |-> cs[k].bcontamprob[f]]],
     acontamflux |-> [k \in DOMAIN cs |-> cs[k].acontamflux],
     bcontamflux |-> [k \in DOMAIN cs |-> cs[k].bcontamflux],
     probcarray  |-> [k \in DOMAIN cs |-> cs[k].probc],
     etaarray    |-> [k \in DOMAIN cs |-> cs[k].eta],
     xiarray     |-> [k \in DOMAIN cs |-> cs[k].xi],
     crptseps    |-> [k \in DOMAIN cs |-> cs[k].seps],
     afieldinds  |-> [k \in DOMAIN fa |-> fa[k].ind],
     probfaarray |-> [k \in DOMAIN fa |-> fa[k].prob],
     afieldfluxs |-> [k \in DOMAIN fa |-> fa[k].flux],
     afieldseps  |-> [k \in DOMAIN fa |-> fa[k].seps],
     afieldetas  |-> [k \in DOMAIN fa |-> fa[k].eta],
     afieldxis   |-> [k \in DOMAIN fa |-> fa[k].xi],
     bfieldinds  |-> [k \in DOMAIN fb |-> fb[k].ind],
     probfbarray |-> [k \in DOMAIN fb |-> fb[k].prob],
     bfieldfluxs |-> [k \in DOMAIN fb |-> fb[k].flux],
     bfieldseps  |-> [k \in DOMAIN fb |-> fb[k].seps],
     bfieldetas  |-> [k \in DOMAIN fb |-> fb[k].eta],
     bfieldxis   |-> [k \in DOMAIN fb |-> fb[k].xi]]

\* the counterpart slots: the islands' slots in island order, in arrays
\* of (at least) mini_crpts_len entries
CountSlots(g, M, lvl, ll, mini_crpts_len) ==
    LET cs == Flatten([k \in DOMAIN g.alist |-> IslandCountSlots(g, k, M, lvl, ll)])
    IN cs \o [k \in 1 .. Max2(0, mini_crpts_len - Len(cs)) |-> SentinelCountSlot(ll)]

AFieldSlots(g, M, lvl, ll) ==
    Flatten([k \in DOMAIN g.alist |->
               IslandFieldSlots(g.alist[k], {p[1] : p \in M}, lvl, ll)])

BFieldSlots(g, M, lvl, ll) ==
    Flatten([k \in DOMAIN g.blist |->
               IslandFieldSlots(g.blist[k], {p[2] : p \in M}, lvl, ll)])

find_island_probabilities(g, M, lvl, ll, mini_crpts_len) ==
    ToArrays(CountSlots(g, M, lvl, ll, mini_crpts_len),
             AFieldSlots(g, M, lvl, ll), BFieldSlots(g, M, lvl, ll))

(***************************************************************************)
(* source_pairing: the quantities the Python side derives.                 *)
(***************************************************************************)
\* len_a summed over the wrong catalogue's island lengths
len_a_from_b(g) == SeqSum(g.bgrplen)

len_a(g) == SeqSum(g.agrplen)

len_b(g) == SeqSum(g.bgrplen)

large_len(in) == Max2(in.big_len_a, in.big_len_b)

cprt_max_len(g) ==
    SeqSum([k \in DOMAIN g.agrplen |-> Min2(g.agrplen[k], g.bgrplen[k])])

\* countfilter keeping every slot
countfilter_keep_all(o, ll) == [k \in DOMAIN o.acountinds |-> TRUE]

\* countfilter without its cut on bcountinds
countfilter_no_bcountinds(o, ll) ==
    [k \in DOMAIN o.acountinds |->
        /\ o.acountinds[k] < ll + 1
        /\ \A f \in DOMAIN o.acontamprob : o.acontamprob[f][k] >= ProbMin
        /\ \A f \in DOMAIN o.bcontamprob : o.bcontamprob[f][k] >= ProbMin
        /\ o.acontamflux[k] >= ProbMin
        /\ o.bcontamflux[k] >= ProbMin
        /\ o.probcarray[k] >= ProbMin
        /\ o.etaarray[k] >= EtaXiMin
        /\ o.xiarray[k] >= EtaXiMin]

countfilter(o, ll) ==
    [k \in DOMAIN o.acountinds |->
        /\ o.acountinds[k] < ll + 1
        /\ o.bcountinds[k] < ll + 1
        /\ \A f \in DOMAIN o.acontamprob : o.acontamprob[f][k] >= ProbMin
        /\ \A f \in DOMAIN o.bcontamprob : o.bcontamprob[f][k] >= ProbMin
        /\ o.acontamflux[k] >= ProbMin
        /\ o.bcontamflux[k] >= ProbMin
        /\ o.probcarray[k] >= ProbMin
        /\ o.etaarray[k] >= EtaXiMin
        /\ o.xiarray[k] >= EtaXiMin]

afieldfilter(o, ll) ==
    [k \in DOMAIN o.afieldinds |->
        o.afieldinds[k] < ll + 1 /\ o.probfaarray[k] >= ProbMin]

bfieldfilter(o, ll) ==
    [k \in DOMAIN o.bfieldinds |->
        o.bfieldinds[k] < ll + 1 /\ o.probfbarray[k] >= ProbMin]

\* the zip with the filter list one entry short from 'pc' on: every later
\* file is paired with the filter of its successor
FileTableShifted ==
    << <<"ac", "acountinds", "countfilter">>,
       <<"bc", "bcountinds", "countfilter">>,
       <<"pacontam", "acontamprob", "countfilter">>,
       <<"pbcontam", "bcontamprob", "countfilter">>,
       <<"acontamflux", "acontamflux", "countfilter">>,
       <<"bcontamflux", "bcontamflux", "countfilter">>,
       <<"af", "afieldinds", "afieldfilter">>,
       <<"bf", "bfieldinds", "bfieldfilter">>,
       <<"pc", "probcarray", "countfilter">>,
       <<"eta", "etaarray", "countfilter">>,
       <<"xi", "xiarray", "afieldfilter">>,
       <<"pfa", "probfaarray", "bfieldfilter">>,
       <<"pfb", "probfbarray", "afieldfilter">>,
       <<"afieldflux", "afieldfluxs", "bfieldfilter">>,
       <<"bfieldflux", "bfieldfluxs", "countfilter">>,
       <<"crptseps", "crptseps", "afieldfilter">>,
       <<"afieldseps", "afieldseps", "afieldfilter">>,
       <<"afieldeta", "afieldetas", "afieldfilter">>,
       <<"afieldxi", "afieldxis", "bfieldfilter">>,
       <<"bfieldseps", "bfieldseps", "bfieldfilter">>,
       <<"bfieldeta", "bfieldetas", "bfieldfilter">>,
       <<"bfieldxi", "bfieldxis", "bfieldfilter">> >>

\* the zip of file_name, variable and filter_variable of the save loop
FileTable ==
    << <<"ac", "acountinds", "countfilter">>,
       <<"bc", "bcountinds", "countfilter">>,
       <<"pacontam", "acontamprob", "countfilter">>,
       <<"pbcontam", "bcontamprob", "countfilter">>,
       <<"acontamflux", "acontamflux", "countfilter">>,
       <<"bcontamflux", "bcontamflux", "countfilter">>,
       <<"af", "afieldinds", "afieldfilter">>,
       <<"bf", "bfieldinds", "bfieldfilter">>,
       <<"pc", "probcarray", "countfilter">>,
       <<"eta", "etaarray", "countfilter">>,
       <<"xi", "xiarray", "countfilter">>,
       <<"pfa", "probfaarray", "afieldfilter">>,
       <<"pfb", "probfbarray", "bfieldfilter">>,
       <<"afieldflux", "afieldfluxs", "afieldfilter">>,
       <<"bfieldflux", "bfieldfluxs", "bfieldfilter">>,
       <<"crptseps", "crptseps", "countfilter">>,
       <<"afieldseps", "afieldseps", "afieldfilter">>,
       <<"afieldeta", "afieldetas", "afieldfilter">>,
       <<"afieldxi", "afieldxis", "afieldfilter">>,
       <<"bfieldseps", "bfieldseps", "bfieldfilter">>,
       <<"bfieldeta", "bfieldetas", "bfieldfilter">>,
       <<"bfieldxi", "bfieldxis", "bfieldfilter">> >>

FileNames == {FileTable[k][1] : k \in DOMAIN FileTable}

TwoDimFiles == {"pacontam", "pbcontam"}

\* the save loop saving the variable itself, not its filtered copy
temp_variable_unfiltered(row, o, f) == o[row[2]]

\* temp_variable of the save loop for one row of the zip
temp_variable(row, o, f) ==
    IF row[1] \in TwoDimFiles
    THEN [rw \in DOMAIN o[row[2]] |-> BoolIndex(o[row[2]][rw], f[row[3]])]
    ELSE BoolIndex(o[row[2]], f[row[3]])

\* numpy raises IndexError when a boolean mask and the indexed axis differ in length
MaskMismatch(row, o, f) ==
    IF row[1] \in TwoDimFiles
    THEN \E rw \in DOMAIN o[row[2]] : Len(o[row[2]][rw]) # Len(f[row[3]])
    ELSE Len(o[row[2]]) # Len(f[row[3]])

countsum(f) == CountTrue(f.countfilter)

afieldsum(f) == CountTrue(f.afieldfilter)

bfieldsum(f) == CountTrue(f.bfieldfilter)

\* the accounting check with >= in its second test
AccountingWarningsGeq(cat, tot, big_len) ==
    (IF tot < big_len
     THEN <<[cat |-> cat, kind |-> "missing", n |-> big_len - tot]>> ELSE <<>>)
    \o (IF tot >= big_len
        THEN <<[cat |-> cat, kind |-> "additional", n |-> tot - big_len]>> ELSE <<>>)

\* the warnings of the accounting check of one catalogue
AccountingWarnings(cat, tot, big_len) ==
    (IF tot < big_len
     THEN <<[cat |-> cat, kind |-> "missing", n |-> big_len - tot]>> ELSE <<>>)
    \o (IF tot > big_len
        THEN <<[cat |-> cat, kind |-> "additional", n |-> tot - big_len]>> ELSE <<>>)

NoArrays == [n \in {} |-> <<>>]

(***************************************************************************)
(* source_pairing: the steps.                                              *)
(***************************************************************************)
PairingInit ==
    /\ ppc = "call"
    /\ inp \in PairingInputs
    /\ gsd = make_island_groupings(inp)
    /\ cpfout = NoArrays
    /\ filt = NoArrays
    /\ saved = NoArrays
    /\ warns = <<>>
    /\ praised = "none"
    /\ MpaIdle
    /\ CalledIdle

\* lines 120-128: the call of the Fortran solver
FindIslandProbabilities ==
    /\ ppc = "call"
    /\ \E M \in Matchings(gsd) : \E lvl \in Levels :
         cpfout' = find_island_probabilities(gsd, M, lvl, large_len(inp),
                                             cprt_max_len(gsd))
    /\ ppc' = "filter"
    /\ UNCHANGED <<inp, gsd, filt, saved, warns, praised>>
    /\ UNCHANGED <<mvars, xvars>>

\* lines 135-143: the three boolean masks
MakeFilters ==
    /\ ppc = "filter"
    /\ filt' = [countfilter  |-> countfilter(cpfout, large_len(inp)),
                afieldfilter |-> afieldfilter(cpfout, large_len(inp)),
                bfieldfilter |-> bfieldfilter(cpfout, large_len(inp))]
    /\ ppc' = "save"
    /\ UNCHANGED <<inp, gsd, cpfout, saved, warns, praised>>
    /\ UNCHANGED <<mvars, xvars>>

\* lines 154-171: the save loop
SaveArrays ==
    /\ ppc = "save"
    /\ IF \E k \in DOMAIN FileTable : MaskMismatch(FileTable[k], cpfout, filt)
       THEN /\ praised' = "IndexError"
            /\ ppc' = "raised"
            /\ UNCHANGED saved
       ELSE /\ saved' = [n \in FileNames |->
                           LET k == CHOOSE k \in DOMAIN FileTable : FileTable[k][1] = n
                           IN temp_variable(FileTable[k], cpfout, filt)]
            /\ ppc' = "checka"
            /\ UNCHANGED praised
    /\ UNCHANGED <<inp, gsd, cpfout, filt, warns>>
    /\ UNCHANGED <<mvars, xvars>>

\* lines 173-180: the accounting check of catalogue a
CheckA ==
    /\ ppc = "checka"
    /\ warns' = warns \o AccountingWarnings(
                    "a", countsum(filt) + afieldsum(filt) + gsd.lenrejecta,
                    inp.big_len_a)
    /\ ppc' = "checkb"
    /\ UNCHANGED <<inp, gsd, cpfout, filt, saved, praised>>
    /\ UNCHANGED <<mvars, xvars>>

\* lines 181-189: the accounting check of catalogue b
CheckB ==
    /\ ppc = "checkb"
    /\ warns' = warns \o AccountingWarnings(
                    "b", countsum(filt) + bfieldsum(filt) + gsd.lenrejectb,
                    inp.big_len_b)
    /\ ppc' = "done"
    /\ UNCHANGED <<inp, gsd, cpfout, filt, saved, praised>>
    /\ UNCHANGED <<mvars, xvars>>

PairingNext ==
    \/ FindIslandProbabilities
    \/ MakeFilters
    \/ SaveArrays
    \/ CheckA
    \/ CheckB

\* source_pairing fed by island grouping and the pairing solver as specified
SpecPairing == PairingInit /\ [][PairingNext]_vars

(***************************************************************************)
(* source_pairing over solver results it does not control: the arrays of   *)
(* a solver run in which one slot holds something else (a duplicated       *)
(* index, an index of large_len, or one value below its cut).  This is the *)
(* situation the accounting check of lines 173-188 exists for.             *)
(***************************************************************************)
CountFields == {"aind", "bind", "acontamprob", "bcontamprob", "acontamflux",
                "bcontamflux", "probc", "eta", "xi"}

\* a value of the field that fails the cut made on it
BadCountValue(fld, ll) ==
    CASE fld \in {"aind", "bind"} -> ll + 1
      [] fld \in {"acontamprob", "bcontamprob"} ->
             [f \in 1 .. NFracs |-> IF f = NFracs THEN ProbMin - 1 ELSE ProbMin]
      [] fld \in {"eta", "xi"} -> EtaXiMin - 1
      [] OTHER -> ProbMin - 1

CountTemplates(ll) ==
    {GoodCountSlot(0, 0, 0), GoodCountSlot(ll, ll, 0)}
    \cup {[GoodCountSlot(0, 0, 0) EXCEPT ![fld] = BadCountValue(fld, ll)] :
            fld \in CountFields}

FieldTemplates(ll) ==
    {GoodFieldSlot(0, 0),
     [GoodFieldSlot(0, 0) EXCEPT !.ind = ll + 1],
     [GoodFieldSlot(0, 0) EXCEPT !.prob = ProbMin - 1]}

\* the assignment of a solver run that pairs every a source, in index
\* order, with the first b source of its island that is still free
RECURSIVE GreedyMatching(_, _, _)
GreedyMatching(g, as, M) ==
    IF as = <<>> THEN M
    ELSE LET free == { b \in UNION { SeqRange(g.blist[k]) :
                                     k \in { i \in DOMAIN g.alist :
                                             as[1] \in SeqRange(g.alist[i]) } } :
                         \A p \in M : p[2] # b }
         IN GreedyMatching(g, Tail(as),
                           IF free = {} THEN M
                           ELSE M \cup {<<as[1], SetMin(free)>>})

FullMatching(g) ==
    GreedyMatching(g, SortedSeq(UNION {SeqRange(g.alist[k]) : k \in DOMAIN g.alist}), {})

FindIslandProbabilitiesAny ==
    /\ ppc = "call"
    /\ LET M == FullMatching(gsd)
           ll == large_len(inp)
           cs == CountSlots(gsd, M, 0, ll, cprt_max_len(gsd))
           fa == AFieldSlots(gsd, M, 0, ll)
           fb == BFieldSlots(gsd, M, 0, ll)
       IN \/ \E k \in DOMAIN cs : \E t \in CountTemplates(ll) :
               /\ t # cs[k]
               /\ cpfout' = ToArrays([cs EXCEPT ![k] = t], fa, fb)
          \/ \E k \in DOMAIN fa : \E t \in FieldTemplates(ll) :
               /\ t # fa[k]
               /\ cpfout' = ToArrays(cs, [fa EXCEPT ![k] = t], fb)
          \/ \E k \in DOMAIN fb : \E t \in FieldTemplates(ll) :
               /\ t # fb[k]
               /\ cpfout' = ToArrays(cs, fa, [fb EXCEPT ![k] = t])
    /\ ppc' = "filter"
    /\ UNCHANGED <<inp, gsd, filt, saved, warns, praised>>
    /\ UNCHANGED <<mvars, xvars>>

PairingAnyNext ==
    \/ FindIslandProbabilitiesAny
    \/ MakeFilters
    \/ SaveArrays
    \/ CheckA
    \/ CheckB

SpecPairingAny == PairingInit /\ [][PairingAnyNext]_vars

(***************************************************************************)
(* Properties of source_pairing.                                           *)
(***************************************************************************)
AfterSave == ppc \in {"checka", "checkb", "done"}

\* every index of 0 .. n-1 is in exactly one of the three lists, none twice
ExactlyOnce(counterparts, field, rejected, n) ==
    /\ SeqRange(counterparts) \cup SeqRange(field) \cup rejected = 0 .. n - 1
    /\ SeqRange(counterparts) \cap SeqRange(field) = {}
    /\ SeqRange(counterparts) \cap rejected = {}
    /\ SeqRange(field) \cap rejected = {}
    /\ Cardinality(SeqRange(counterparts)) = Len(counterparts)
    /\ Cardinality(SeqRange(field)) = Len(field)
    /\ Len(counterparts) + Len(field) + Cardinality(rejected) = n

\* C1: once source_pairing has completed, every source index of catalogue a
\* (and likewise of b) is in exactly one of the saved counterpart list, the
\* saved field list and the rejected set, so the three counts add up to the
\* catalogue length with no index missing or duplicated.
C1_EverySourceAccountedOnce ==
    ppc = "done" =>
        /\ ExactlyOnce(saved.ac, saved.af, inp.rejecta, inp.big_len_a)
        /\ ExactlyOnce(saved.bc, saved.bf, inp.rejectb, inp.big_len_b)

\* a completed run with a counterpart, a field source and a rejected source
C1_Witness ==
    /\ ppc = "done"
    /\ Len(saved.ac) >= 1
    /\ Len(saved.af) >= 1
    /\ inp.rejectb # {}

WarnCount(cat, kind) ==
    Cardinality({k \in DOMAIN warns : warns[k].cat = cat /\ warns[k].kind = kind})

\* counterparts + field + rejected, from what was saved
SavedTotal(cat) ==
    IF cat = "a" THEN Len(saved.ac) + Len(saved.af) + gsd.lenrejecta
    ELSE Len(saved.bc) + Len(saved.bf) + gsd.lenrejectb

AccountingReported(cat, big_len) ==
    /\ WarnCount(cat, "missing") = (IF SavedTotal(cat) < big_len THEN 1 ELSE 0)
    /\ WarnCount(cat, "additional") = (IF SavedTotal(cat) > big_len THEN 1 ELSE 0)

\* C2: the accounting check is non-fatal: per catalogue, exactly one
\* "missing" warning when counterparts + field + rejected is below the
\* catalogue length, exactly one "additional" warning when it is above, none
\* when equal; source_pairing never raises, and all 22 arrays are saved
\* before the check runs.
C2_AccountingCheckNonFatal ==
    /\ ppc # "raised" /\ praised = "none"
    /\ (AfterSave => DOMAIN saved = FileNames)
    /\ (~AfterSave => warns = <<>>)
    /\ (ppc = "checka" => warns = <<>>)
    /\ (ppc \in {"checkb", "done"} => AccountingReported("a", inp.big_len_a))
    /\ (ppc = "checkb" => WarnCount("b", "missing") + WarnCount("b", "additional") = 0)
    /\ (ppc = "done" => AccountingReported("b", inp.big_len_b))

\* a completed run that warned of a missing a source and of nothing for b
C2_Witness ==
    /\ ppc = "done"
    /\ WarnCount("a", "missing") = 1
    /\ WarnCount("b", "missing") + WarnCount("b", "additional") = 0
    /\ DOMAIN saved = FileNames

\* a completed run that warned of an additional index
C2_WitnessAdditional ==
    /\ ppc = "done"
    /\ WarnCount("b", "additional") = 1

C4_NoSentinelSaved ==
    AfterSave =>
        \A n \in {"ac", "bc", "af", "bf"} :
            \A j \in DOMAIN saved[n] :
                saved[n][j] < Max2(inp.big_len_a, inp.big_len_b) + 1

\* arrays holding sentinel entries were saved, a counterpart entry kept
C4_Witness ==
    /\ AfterSave
    /\ \E k \in DOMAIN cpfout.bcountinds :
          cpfout.bcountinds[k] >= Max2(inp.big_len_a, inp.big_len_b) + 1
    /\ \E k \in DOMAIN cpfout.afieldinds :
          cpfout.afieldinds[k] >= Max2(inp.big_len_a, inp.big_len_b) + 1
    /\ Len(saved.ac) >= 1

\* the entries of a solver array that a mask selects
Selected(variable, mask) == BoolIndex(cpfout[variable], filt[mask])

\* C5: every saved array keeps exactly the entries its group's mask
\* selects: the counterpart arrays those of countfilter (pacontam and
\* pbcontam along their second axis), the a field arrays those of
\* afieldfilter, the b field arrays those of bfieldfilter.
C5_SameMaskPerGroup ==
    AfterSave =>
        /\ saved.ac = Selected("acountinds", "countfilter")
        /\ saved.bc = Selected("bcountinds", "countfilter")
        /\ \A rw \in 1 .. NFracs :
             /\ saved.pacontam[rw] = BoolIndex(cpfout.acontamprob[rw], filt.countfilter)
             /\ saved.pbcontam[rw] = BoolIndex(cpfout.bcontamprob[rw], filt.countfilter)
        /\ DOMAIN saved.pacontam = 1 .. NFracs
        /\ DOMAIN saved.pbcontam = 1 .. NFracs
        /\ saved.acontamflux = Selected("acontamflux", "countfilter")
        /\ saved.bcontamflux = Selected("bcontamflux", "countfilter")
        /\ saved.pc = Selected("probcarray", "countfilter")
        /\ saved.eta = Selected("etaarray", "countfilter")
        /\ saved.xi = Selected("xiarray", "countfilter")
        /\ saved.crptseps = Selected("crptseps", "countfilter")
        /\ saved.af = Selected("afieldinds", "afieldfilter")
        /\ saved.pfa = Selected("probfaarray", "afieldfilter")
        /\ saved.afieldflux = Selected("afieldfluxs", "afieldfilter")
        /\ saved.afieldseps = Selected("afieldseps", "afieldfilter")
        /\ saved.afieldeta = Selected("afieldetas", "afieldfilter")
        /\ saved.afieldxi = Selected("afieldxis", "afieldfilter")
        /\ saved.bf = Selected("bfieldinds", "bfieldfilter")
        /\ saved.pfb = Selected("probfbarray", "bfieldfilter")
        /\ saved.bfieldflux = Selected("bfieldfluxs", "bfieldfilter")
        /\ saved.bfieldseps = Selected("bfieldseps", "bfieldfilter")
        /\ saved.bfieldeta = Selected("bfieldetas", "bfieldfilter")
        /\ saved.bfieldxi = Selected("bfieldxis", "bfieldfilter")

\* arrays saved under masks that differ, countfilter keeping one entry
\* and dropping another
C5_Witness ==
    /\ AfterSave
    /\ filt.countfilter # filt.afieldfilter
    /\ \E k \in DOMAIN filt.countfilter : filt.countfilter[k]
    /\ \E k \in DOMAIN filt.countfilter : ~filt.countfilter[k]
    /\ \E k \in DOMAIN filt.afieldfilter : ~filt.afieldfilter[k]
    /\ Len(saved.crptseps) >= 1

\* C6: the saved counterpart pairs never outnumber the sum over islands of
\* min(a members, b members): no island yields more counterparts than it
\* has a members or b members, each a source being paired with at most one
\* b source and each b source with at most one a source.
C6_CounterpartsBoundedByIslands ==
    ppc = "done" =>
        /\ Len(saved.ac) <=
             SeqSum([k \in DOMAIN gsd.agrplen |->
                       Min2(gsd.agrplen[k], gsd.bgrplen[k])])
        /\ \A k \in DOMAIN gsd.alist :
             LET n == Cardinality({j \in DOMAIN saved.ac :
                                     saved.ac[j] \in SeqRange(gsd.alist[k])})
             IN n <= gsd.agrplen[k] /\ n <= gsd.bgrplen[k]
        /\ \A j1 \in DOMAIN saved.ac : \A j2 \in DOMAIN saved.ac :
             j1 # j2 => saved.ac[j1] # saved.ac[j2] /\ saved.bc[j1] # saved.bc[j2]

\* a completed run with a counterpart from an island of two a and one b
C6_Witness ==
    /\ ppc = "done"
    /\ \E k \in DOMAIN gsd.alist :
         /\ gsd.agrplen[k] = 2
         /\ gsd.bgrplen[k] = 1
         /\ \E j \in DOMAIN saved.ac : saved.ac[j] \in SeqRange(gsd.alist[k])

(***************************************************************************)
(* make_perturb_aufs: keyword arguments and their validation.             *)
(*                                                                         *)
(* An argument is "None" or "given" (any usable value); the three mode     *)
(* flags are "None", "True" or "False".  The locals dd_params and l_cut    *)
(* can also be "zeros", the placeholder array substituted for None.        *)
(***************************************************************************)
MaxNone == 2

MaxSources == 2

\* The None checks of make_perturb_aufs in program order.  Each entry is the
\* parameter tested and the flag that must also be truthy for the check to
\* apply ("always": include_perturb_auf alone).
ConfigChecks ==
    << <<"tri_set_name", "always">>,
       <<"tri_filt_num", "always">>,
       <<"tri_filt_names", "always">>,
       <<"tri_maglim_faint", "always">>,
       <<"tri_num_faint", "always">>,
       <<"auf_region_frame", "always">>,
       <<"delta_mag_cuts", "always">>,
       <<"psf_fwhms", "always">>,
       <<"num_trials", "always">>,
       <<"j0s", "always">>,
       <<"d_mag", "always">>,
       <<"run_fw", "always">>,
       <<"run_psf", "always">>,
       <<"dd_params", "run_psf">>,
       <<"l_cut", "run_psf">>,
       <<"snr_mag_params", "always">>,
       <<"al_avs", "always">>,
       <<"density_radius", "always">>,
       <<"fit_gal_flag", "always">>,
       <<"cmau_array", "fit_gal_flag">>,
       <<"wavs", "fit_gal_flag">>,
       <<"z_maxs", "fit_gal_flag">>,
       <<"nzs", "fit_gal_flag">>,
       <<"ab_offsets", "fit_gal_flag">>,
       <<"filter_names", "fit_gal_flag">>,
       <<"alpha0", "fit_gal_flag">>,
       <<"alpha1", "fit_gal_flag">>,
       <<"alpha_weight", "fit_gal_flag">> >>

ParamNames == {ConfigChecks[k][1] : k \in DOMAIN ConfigChecks}

\* Python truthiness of an argument value
Truthy(v) == v \in {"True", "given", "zeros"}

\* The arguments of one call: the parameters in N are None, the mode flags
\* otherwise carry fw, psf and gal, everything else is given.  dd_params and
\* l_cut are the local names, which the function may rebind.
MakeCfg(inc, tdf, N, fw, psf, gal) ==
    [include_perturb_auf |-> inc,
     tri_download_flag |-> tdf,
     none |-> N,
     run_fw |-> IF "run_fw" \in N THEN "None" ELSE fw,
     run_psf |-> IF "run_psf" \in N THEN "None" ELSE psf,
     fit_gal_flag |-> IF "fit_gal_flag" \in N THEN "None" ELSE gal,
     dd_params |-> IF "dd_params" \in N THEN "None" ELSE "given",
     l_cut |-> IF "l_cut" \in N THEN "None" ELSE "given"]

\* the value passed for parameter p
Arg(c, p) ==
    IF p \in c.none THEN "None"
    ELSE IF p \in {"run_fw", "run_psf", "fit_gal_flag"} THEN c[p]
    ELSE "given"

RECURSIVE NoneSets(_)
\* the sets of exactly n parameters
NoneSets(n) ==
    IF n = 0 THEN {{}}
    ELSE {N \in {M \cup {p} : M \in NoneSets(n - 1), p \in ParamNames} :
            Cardinality(N) = n}

FlagValues == {"True", "False"}

\* The flag settings explored.  Without include_perturb_auf the flags are
\* read nowhere (every use is behind "include_perturb_auf and"), so one
\* value of each is explored there.
FlagSettings ==
    {[inc |-> TRUE, tdf |-> tdf, fw |-> fw, psf |-> psf, gal |-> gal] :
        tdf \in BOOLEAN, fw \in FlagValues, psf \in FlagValues,
        gal \in FlagValues} \cup
    {[inc |-> FALSE, tdf |-> FALSE, fw |-> "True", psf |-> "True", gal |-> "True"]}

\* the arguments of c that are None
NoneOf(c) == c.none

\* Does check k apply under the flags given; here without the flag
CheckAppliesAlways(c, k) == c.include_perturb_auf

\* "include_perturb_auf and [run_psf and | fit_gal_flag and]" of check k
CheckApplies(c, k) ==
    /\ c.include_perturb_auf
    /\ \/ ConfigChecks[k][2] = "always"
       \/ Truthy(Arg(c, ConfigChecks[k][2]))

\* check k raises: it applies and its parameter is None
CheckFails(c, k) ==
    /\ CheckApplies(c, k)
    /\ Arg(c, ConfigChecks[k][1]) = "None"

\* Index of the last failing check
LastError(c) ==
    LET failing == {k \in DOMAIN ConfigChecks : CheckFails(c, k)}
    IN  IF failing = {} THEN 0
        ELSE CHOOSE k \in failing : \A m \in failing : m <= k

\* Index of the check that raises, 0 if none: the checks run in order and
\* the first failing one raises.
FirstError(c) ==
    LET failing == {k \in DOMAIN ConfigChecks : CheckFails(c, k)}
    IN  IF failing = {} THEN 0 ELSE SetMin(failing)

\* dd_params = np.zeros((1, 1)) and l_cut = np.zeros((1)) when None
WithPlaceholders(c) ==
    IF c.include_perturb_auf
    THEN [c EXCEPT !.dd_params = IF @ = "None" THEN "zeros" ELSE @,
                   !.l_cut = IF @ = "None" THEN "zeros" ELSE @]
    ELSE c

(***************************************************************************)
(* make_perturb_aufs: the catalogue, the sky tiles and the filters.        *)
(***************************************************************************)
\* auf_points: the sky tiles, as (ax1, ax2)
auf_points == << <<0, 0>>, <<4, 0>> >>

filters == <<"J", "K">>

\* bin edges and bin widths of the radial offsets
r == <<0, 1, 2>>

dr == <<1, 1>>

\* the frequencies at which the fourier-space AUF is sampled
j0s == <<1, 2>>

SkyPositions == {<<1, 0>>, <<3, 0>>}

Dist2(p, q) == (p[1] - q[1]) * (p[1] - q[1]) + (p[2] - q[2]) * (p[2] - q[2])

\* mff.find_nearest_point: 0-based index of the closest auf_point, per source
find_nearest_point(pos) ==
    SetMin({t \in DOMAIN auf_points :
              \A u \in DOMAIN auf_points :
                 Dist2(pos, auf_points[t]) <= Dist2(pos, auf_points[u])}) - 1

\* One catalogue row: position (con_cat_astro), one magnitude per filter
\* (con_cat_photo; "nan" for a non-detection) and the best filter (magref).
SourceRows ==
    [pos : SkyPositions,
     photo : [DOMAIN filters -> {"nan", "mag"}],
     magref : 0 .. Len(filters) - 1]

\* position of a row in the listing of SourceRows by tile, magnitudes, magref
RowCode(row) ==
    8 * find_nearest_point(row.pos)
    + 4 * (IF row.photo[1] = "nan" THEN 0 ELSE 1)
    + 2 * (IF row.photo[2] = "nan" THEN 0 ELSE 1)
    + row.magref

RECURSIVE RowLists(_, _)
\* the lists of n rows in listing order, none earlier than one in first
RowLists(n, first) ==
    IF n = 0 THEN {<<>>}
    ELSE UNION {{<<row>> \o rest : rest \in RowLists(n - 1, {row})} :
                  row \in {x \in SourceRows :
                             \A f \in first : RowCode(f) <= RowCode(x)}}

\* The catalogues of exactly n sources.  Every row is handled on its own,
\* whatever its place in the file, so the catalogues are explored up to the
\* order of their rows.
Catalogues(n) == RowLists(n, {})

\* Catalogues(m) for m = 0 .. MaxSources, kept as a table
CatalogueTable == [m \in 0 .. MaxSources |-> Catalogues(m)]

\* The catalogue sizes explored for a call with n arguments None: at most
\* MaxSources rows, and with the None arguments at most Max2(MaxNone,
\* MaxSources) things all told.
CatalogueSizes(n) ==
    {m \in 0 .. MaxSources : n + m <= Max2(MaxNone, MaxSources)}

\* f'{ax1}-{ax2}-{filt}' for every tile and filter (1-based), kept as a table
ComboTable ==
    [i \in DOMAIN auf_points |-> [j \in DOMAIN filters |->
        ToString(auf_points[i][1]) \o "-" \o ToString(auf_points[i][2])
            \o "-" \o filters[j]]]

\* perturb_auf_combo for 0-based tile i and filter j
perturb_auf_combo(i, j) == ComboTable[i + 1][j + 1]

ComboKeys ==
    {perturb_auf_combo(i, j) : i \in 0 .. Len(auf_points) - 1,
                               j \in 0 .. Len(filters) - 1}

GridKeys == {"fourier_grid", "frac_grid", "flux_grid"}

\* sky_cut = modelrefinds[2, :] == i, as the set of (1-based) catalogue rows
sky_cut(i) == {s \in DOMAIN cat_folder : modelrefinds[3][s] = i}

\* good_mag_slice without the isnan test
good_mag_slice_all(i, j) == sky_cut(i)

\* the rows of tile i with a measured magnitude in filter j
good_mag_slice(i, j) == {s \in sky_cut(i) : cat_folder[s].photo[j + 1] # "nan"}

(***************************************************************************)
(* make_perturb_aufs: the per-bin bundles and the grids.                   *)
(*                                                                         *)
(* A 2-D array is a sequence of rows.  Entries of 'offset' are kept exact  *)
(* as num / (den_pi * pi).                                                 *)
(***************************************************************************)
ZeroOffset == [num |-> 0, den_pi |-> 1]

\* 1 / (2 * np.pi * (r[0] + dr[0]/2) * dr[0])
DiracPeak == [num |-> 1, den_pi |-> (2 * r[1] + dr[1]) * dr[1]]

Full2(rows, cols, v) == [k \in 1 .. rows |-> [c \in 1 .. cols |-> v]]

Full1(cols, v) == [c \in 1 .. cols |-> v]

\* The dummy bundle with 'cumulative' left at zero
DiracBundleFlat ==
    [frac |-> Full2(1, 1, 0),
     flux |-> Full1(1, 0),
     offset |-> [k \in 1 .. Len(r) - 1 |->
                   <<IF k = 1 THEN DiracPeak ELSE ZeroOffset>>],
     cumulative |-> Full2(Len(r) - 1, 1, 0),
     fourier |-> Full2(Len(j0s), 1, 1),
     Narray |-> Full2(1, 1, 1),
     magarray |-> Full2(1, 1, 1)]

\* The dummy bundle of a bin without simulation, num_n_mag = 1
DiracBundle ==
    [frac |-> Full2(1, 1, 0),
     flux |-> Full1(1, 0),
     offset |-> [k \in 1 .. Len(r) - 1 |->
                   <<IF k = 1 THEN DiracPeak ELSE ZeroOffset>>],
     cumulative |-> Full2(Len(r) - 1, 1, 1),
     fourier |-> Full2(Len(j0s), 1, 1),
     Narray |-> Full2(1, 1, 1),
     magarray |-> Full2(1, 1, 1)]

\* the magnitude offsets at which contamination fractions are reported
delta_mag_cuts == <<2, 5>>

n_fracs(c) ==
    IF Arg(c, "delta_mag_cuts") = "None" THEN NFracs ELSE Len(delta_mag_cuts)

\* The bundle create_single_perturb_auf returns for nm density-magnitude
\* combinations; 2 stands for a simulated value.
SimBundle(nm) ==
    [frac |-> Full2(Len(delta_mag_cuts), nm, 2),
     flux |-> Full1(nm, 2),
     offset |-> Full2(Len(r) - 1, nm, [num |-> 2, den_pi |-> 1]),
     cumulative |-> Full2(Len(r) - 1, nm, 2),
     fourier |-> Full2(Len(j0s), nm, 2),
     Narray |-> Full1(nm, 2),
     magarray |-> Full1(nm, 2)]

\* How a call of create_single_perturb_auf on n_photo magnitudes can end:
\* ValueError when the simulation holds fewer than 100 bright objects;
\* otherwise UnboundLocalError at "flux = flux_psf" when neither algorithm
\* ran; otherwise a bundle with one column per occupied density-magnitude
\* cell, of which there are between one and n_photo.
create_single_perturb_auf(c, n_photo) ==
    {[kind |-> "ValueError", len |-> 0]} \cup
    IF ~Truthy(Arg(c, "run_fw")) /\ ~Truthy(Arg(c, "run_psf"))
    THEN {[kind |-> "UnboundLocalError", len |-> 0]}
    ELSE {[kind |-> "bundle", len |-> nm] : nm \in 1 .. n_photo}

\* perturb_auf_outputs[key] = value
Put(o, key, value) ==
    [k \in DOMAIN o \cup {key} |-> IF k = key THEN value ELSE o[k]]

\* numpy assignment of a (rows, cols) array into a slot, repeating a
\* length-one axis
Bcast2(a, k, c) ==
    a[IF Len(a) = 1 THEN 1 ELSE k][IF Len(a[1]) = 1 THEN 1 ELSE c]

Bcast1(a, c) == a[IF Len(a) = 1 THEN 1 ELSE c]

longestnm(al) ==
    LET S == {al[j][i] : j \in DOMAIN filters, i \in DOMAIN auf_points}
    IN  CHOOSE x \in S : \A y \in S : y <= x

\* create_auf_params_grid: per filter and tile the array name of the bundle,
\* padded with -1 beyond the bin's own arraylengths; len_first_axis = 0
\* stands for None (a 1-D array per bin).
create_auf_params_grid(o, name, al, len_first_axis) ==
    [j \in DOMAIN filters |-> [i \in DOMAIN auf_points |->
        LET a == o[perturb_auf_combo(i - 1, j - 1)][name]
        IN  IF len_first_axis = 0
            THEN [c \in 1 .. longestnm(al) |->
                    IF c <= al[j][i] THEN Bcast1(a, c) ELSE -1]
            ELSE [k \in 1 .. len_first_axis |-> [c \in 1 .. longestnm(al) |->
                    IF c <= al[j][i] THEN Bcast2(a, k, c) ELSE -1]]]]

\* np.argmin over the nm combinations of a bin: whichever index holds the
\* smallest distance, so any of them depending on the values compared
argmin(nm) == 0 .. nm - 1

(***************************************************************************)
(* make_perturb_aufs: the steps.                                           *)
(***************************************************************************)
Event(op, i, j) == [op |-> op, i |-> i, j |-> j]

\* where the double loop goes after filter j of tile i
NextPos(i, j) ==
    IF j + 1 < Len(filters) THEN [pc |-> "filter", i |-> i, j |-> j + 1]
    ELSE IF i + 1 < Len(auf_points) THEN [pc |-> "tile", i |-> i + 1, j |-> 0]
    ELSE [pc |-> "assemble", i |-> i + 1, j |-> 0]

MpaInit ==
    /\ mpc = "validate"
    /\ \E n \in 0 .. MaxNone : \E N \in NoneSets(n), f \in FlagSettings :
         cfg = MakeCfg(f.inc, f.tdf, N, f.fw, f.psf, f.gal)
    /\ cat_folder = <<>>
    /\ loop = [i |-> 0, j |-> 0]
    /\ trifile = [t \in DOMAIN auf_points |-> "unchecked"]
    /\ modelrefinds = <<>>
    /\ arraylengths = <<>>
    /\ outputs = <<>>
    /\ events = <<>>
    /\ mraised = NoError
    /\ PairingIdle
    /\ CalledIdle

\* The None checks and the placeholder substitution
Validate ==
    /\ mpc = "validate"
    /\ LET e == FirstError(cfg)
       IN  IF e # 0
           THEN /\ mpc' = "raised"
                /\ mraised' = [type |-> "ValueError", param |-> ConfigChecks[e][1]]
                /\ UNCHANGED cfg
           ELSE /\ mpc' = "load"
                /\ cfg' = WithPlaceholders(cfg)
                /\ UNCHANGED mraised
    /\ UNCHANGED <<cat_folder, loop, trifile, modelrefinds, arraylengths,
                   outputs, events>>
    /\ UNCHANGED <<pvars, xvars>>

\* np.load of the catalogue, modelrefinds[2, :] and the empty accumulators
LoadCatalogue ==
    /\ mpc = "load"
    /\ \E m \in CatalogueSizes(Cardinality(NoneOf(cfg))) :
         \E a_tot \in CatalogueTable[m] :
            /\ cat_folder' = a_tot
            /\ modelrefinds' = <<[s \in DOMAIN a_tot |-> 0],
                                 [s \in DOMAIN a_tot |-> 0],
                                 [s \in DOMAIN a_tot |->
                                    find_nearest_point(a_tot[s].pos)]>>
    /\ events' = events \o <<Event("np.load con_cat_astro", -1, -1)>> \o
                 IF cfg.include_perturb_auf
                 THEN <<Event("np.load con_cat_photo", -1, -1)>> ELSE <<>>
    /\ arraylengths' = [j \in DOMAIN filters |-> [i \in DOMAIN auf_points |-> 0]]
    /\ outputs' = <<>>
    /\ loop' = [i |-> 0, j |-> 0]
    /\ mpc' = IF Len(auf_points) > 0 THEN "tile" ELSE "assemble"
    /\ UNCHANGED <<cfg, trifile, mraised>>
    /\ UNCHANGED <<pvars, xvars>>

download_whenever_sources(nonempty, tri_download_flag, isfile) == nonempty

\* the condition of lines 315-316; nonempty stands for
\* "include_perturb_auf and len(a_astro_cut) > 0"
download_needed(nonempty, tri_download_flag, isfile) ==
    nonempty /\ (tri_download_flag \/ ~isfile)

\* Start of the iteration for tile i: its folder and its TRILEGAL simulation.
\* The folder is made to exist, which the log records as os.makedirs whether
\* or not it was there already.  isfile: what os.path.isfile answers, which
\* is asked only when the tile has sources and tri_download_flag is False;
\* ok: whether download_trilegal_simulation gets its simulation.
StartTile ==
    /\ mpc = "tile"
    /\ \E isfile \in BOOLEAN, ok \in BOOLEAN :
         LET i == loop.i
             nonempty == cfg.include_perturb_auf /\ sky_cut(i) # {}
             asked == nonempty /\ ~cfg.tri_download_flag
             download == download_needed(nonempty, cfg.tri_download_flag, isfile)
             nxt == NextPos(i, -1)
         IN  /\ events' = events \o <<Event("os.makedirs", i, -1)>> \o
                    (IF download
                     THEN <<Event("download_trilegal_simulation", i, -1)>>
                     ELSE <<>>)
             /\ trifile' = [trifile EXCEPT ![i + 1] =
                    IF asked THEN (IF isfile THEN "present" ELSE "absent")
                    ELSE @]
             /\ IF download /\ ~ok
                THEN /\ mpc' = "raised"
                     /\ mraised' = [type |-> "HTTPError", param |-> "nocomm_count"]
                     /\ UNCHANGED loop
                ELSE /\ mpc' = nxt.pc
                     /\ loop' = [i |-> nxt.i, j |-> nxt.j]
                     /\ UNCHANGED mraised
    /\ UNCHANGED <<cfg, cat_folder, modelrefinds, arraylengths, outputs>>
    /\ UNCHANGED <<pvars, xvars>>

\* Body of the filter loop for tile i and filter j
FilterBin ==
    /\ mpc = "filter"
    /\ LET i == loop.i
           j == loop.j
           key == perturb_auf_combo(i, j)
           a_photo == good_mag_slice(i, j)
           nxt == NextPos(i, j)
       IN  IF cfg.include_perturb_auf
           THEN IF a_photo = {}
                THEN /\ arraylengths' = [arraylengths EXCEPT ![j + 1][i + 1] = 0]
                     /\ outputs' = Put(outputs, key, DiracBundle)
                     /\ mpc' = nxt.pc
                     /\ loop' = [i |-> nxt.i, j |-> nxt.j]
                     /\ UNCHANGED <<events, mraised>>
                ELSE \E out \in create_single_perturb_auf(cfg, Cardinality(a_photo)) :
                     /\ events' = events \o
                            <<Event("calculate_local_density", i, j),
                              Event("create_single_perturb_auf", i, j)>>
                     /\ IF out.kind = "bundle"
                        THEN /\ outputs' = Put(outputs, key, SimBundle(out.len))
                             /\ arraylengths' = [arraylengths EXCEPT ![j + 1][i + 1] =
                                                   Len(SimBundle(out.len).Narray)]
                             /\ mpc' = nxt.pc
                             /\ loop' = [i |-> nxt.i, j |-> nxt.j]
                             /\ UNCHANGED mraised
                        ELSE /\ mpc' = "raised"
                             /\ mraised' = [type |-> out.kind,
                                            param |-> "create_single_perturb_auf"]
                             /\ UNCHANGED <<outputs, arraylengths, loop>>
           ELSE IF Arg(cfg, "j0s") = "None"
                THEN /\ mpc' = "raised"
                     /\ mraised' = [type |-> "AttributeError", param |-> "j0s.shape"]
                     /\ UNCHANGED <<outputs, arraylengths, loop, events>>
                ELSE /\ outputs' = Put(outputs, key, DiracBundle)
                     /\ arraylengths' = [arraylengths EXCEPT ![j + 1][i + 1] =
                                           Len(DiracBundle.Narray)]
                     /\ mpc' = nxt.pc
                     /\ loop' = [i |-> nxt.i, j |-> nxt.j]
                     /\ UNCHANGED <<events, mraised>>
    /\ UNCHANGED <<cfg, cat_folder, trifile, modelrefinds>>
    /\ UNCHANGED <<pvars, xvars>>

\* The length of the bin that source s refers to: its tile and its magref
RefLength(s) == arraylengths[cat_folder[s].magref + 1][modelrefinds[3][s] + 1]

\* perturb_auf_outputs with the three grids added
WithGrids(o, c, al) ==
    [k \in DOMAIN o \cup GridKeys |->
        IF k = "fourier_grid"
        THEN create_auf_params_grid(o, "fourier", al, Len(j0s))
        ELSE IF k = "frac_grid"
        THEN create_auf_params_grid(o, "frac", al, n_fracs(c))
        ELSE IF k = "flux_grid"
        THEN create_auf_params_grid(o, "flux", al, 0)
        ELSE o[k]]

\* After the loops: modelrefinds[0, :] and [1, :], then the grids, return
Assemble ==
    /\ mpc = "assemble"
    /\ events' = events \o
                 (IF cfg.include_perturb_auf
                  THEN <<Event("np.load con_cat_photo", -1, -1)>> ELSE <<>>) \o
                 <<Event("np.load magref", -1, -1)>>
    /\ IF cfg.include_perturb_auf /\ \E s \in DOMAIN cat_folder : argmin(RefLength(s)) = {}
       THEN /\ mpc' = "raised"
            /\ mraised' = [type |-> "ValueError", param |-> "np.argmin"]
            /\ UNCHANGED <<modelrefinds, outputs>>
       ELSE /\ \E nmind \in [DOMAIN cat_folder -> 0 .. longestnm(arraylengths)] :
                 /\ \A s \in DOMAIN cat_folder :
                       IF cfg.include_perturb_auf
                       THEN nmind[s] \in argmin(RefLength(s))
                       ELSE nmind[s] = 0
                 /\ modelrefinds' = <<nmind,
                                      [s \in DOMAIN cat_folder |-> cat_folder[s].magref],
                                      modelrefinds[3]>>
            /\ outputs' = WithGrids(outputs, cfg, arraylengths)
            /\ mpc' = "returned"
            /\ UNCHANGED mraised
    /\ UNCHANGED <<cfg, cat_folder, loop, trifile, arraylengths>>
    /\ UNCHANGED <<pvars, xvars>>

MpaNext ==
    \/ Validate
    \/ LoadCatalogue
    \/ StartTile
    \/ FilterBin
    \/ Assemble

SpecPerturbAufs == MpaInit /\ [][MpaNext]_vars

(***************************************************************************)
(* Properties of make_perturb_aufs.                                        *)
(***************************************************************************)
PsfParams == {"dd_params", "l_cut"}

GalaxyParams == {"cmau_array", "wavs", "z_maxs", "nzs", "ab_offsets",
                 "filter_names", "alpha0", "alpha1", "alpha_weight"}

\* parameter p is one that the mode selected by the flags of c makes use of
Required(c, p) ==
    /\ c.include_perturb_auf
    /\ p \in PsfParams => Arg(c, "run_psf") = "True"
    /\ p \in GalaxyParams => Arg(c, "fit_gal_flag") = "True"

MissingRequired(c) == {p \in NoneOf(c) : Required(c, p)}

CheckIndex(p) == CHOOSE k \in DOMAIN ConfigChecks : ConfigChecks[k][1] = p

FirstMissing(c) ==
    CHOOSE p \in MissingRequired(c) :
        \A q \in MissingRequired(c) : CheckIndex(p) <= CheckIndex(q)

Started == mpc \notin {"idle", "validate"}

\* C7: once the checks have run on a call that has include_perturb_auf True
\* and lacks a parameter its mode requires, the call has raised the
\* ValueError naming the first such parameter in the order of the checks,
\* and no catalogue file has been loaded, no folder created, no TRILEGAL
\* download requested and no simulation run.
C7_FailsFastOnInvalidConfig ==
    (Started /\ MissingRequired(cfg) # {}) =>
        /\ mpc = "raised"
        /\ mraised = [type |-> "ValueError", param |-> FirstMissing(cfg)]
        /\ events = <<>>

C7_Witness ==
    /\ mpc = "raised"
    /\ Arg(cfg, "run_psf") = "True"
    /\ MissingRequired(cfg) = {"l_cut", "alpha0"}
    /\ mraised.param = "l_cut"

ConfigErrorRaised ==
    /\ mpc = "raised"
    /\ mraised.type = "ValueError"
    /\ mraised.param \in ParamNames

\* C8: with include_perturb_auf False no ValueError is raised whatever is
\* None.  With include_perturb_auf True: when run_psf is False a None
\* dd_params or l_cut raises nothing and is replaced by the zero placeholder,
\* when run_psf is True it makes the call raise a ValueError; a galaxy
\* parameter is named by a ValueError only if fit_gal_flag is True, and when
\* fit_gal_flag is True a None galaxy parameter makes the call raise one.
C8_RequiredOnlyInSelectedMode ==
    /\ (Started /\ ~cfg.include_perturb_auf) => mraised.type # "ValueError"
    /\ (Started /\ cfg.include_perturb_auf) =>
        /\ \A p \in PsfParams :
            /\ Arg(cfg, "run_psf") = "False" =>
                /\ ~(ConfigErrorRaised /\ mraised.param = p)
                /\ (~ConfigErrorRaised /\ Arg(cfg, p) = "None") => cfg[p] = "zeros"
            /\ (Arg(cfg, "run_psf") = "True" /\ Arg(cfg, p) = "None") =>
                ConfigErrorRaised
        /\ \A p \in GalaxyParams :
            /\ (ConfigErrorRaised /\ mraised.param = p) =>
                Arg(cfg, "fit_gal_flag") = "True"
            /\ (Arg(cfg, "fit_gal_flag") = "True" /\ Arg(cfg, p) = "None") =>
                ConfigErrorRaised

C8_Witness ==
    /\ mpc = "returned"
    /\ cfg.include_perturb_auf
    /\ Arg(cfg, "run_psf") = "False"
    /\ Arg(cfg, "dd_params") = "None"
    /\ cfg.dd_params = "zeros"
    /\ Arg(cfg, "fit_gal_flag") = "False"
    /\ Arg(cfg, "wavs") = "None"

BundleFields == {"frac", "flux", "offset", "cumulative", "fourier", "Narray",
                 "magarray"}

AllEqual2(a, v) == \A k \in DOMAIN a : \A c \in DOMAIN a[k] : a[k][c] = v

\* the bundle b describes a Dirac delta: no perturbation at all
IsDiracDelta(b) ==
    /\ DOMAIN b = BundleFields
    /\ Len(b.fourier) = Len(j0s)
    /\ AllEqual2(b.fourier, 1)
    /\ Len(b.cumulative) = Len(r) - 1
    /\ AllEqual2(b.cumulative, 1)
    /\ AllEqual2(b.frac, 0)
    /\ \A c \in DOMAIN b.flux : b.flux[c] = 0
    /\ Len(b.offset) = Len(r) - 1
    /\ \A k \in DOMAIN b.offset : \A c \in DOMAIN b.offset[k] :
          (b.offset[k][c].num # 0) <=> (k = 1)
    /\ Len(b.Narray) = 1
    /\ Len(b.Narray[1]) = 1
    /\ Len(b.magarray) = 1
    /\ Len(b.magarray[1]) = 1

\* C9: with include_perturb_auf False every bundle held for a (tile, filter)
\* combination is a Dirac delta (fourier and cumulative 1 throughout, frac
\* and flux 0, offset non-zero in the first radial bin only, one entry in
\* Narray and in magarray), and on return every combination has its bundle
\* and modelrefinds[0, i] is 0 for every source.
C9_DiracDeltaWithoutPerturbation ==
    (Started /\ ~cfg.include_perturb_auf) =>
        /\ \A key \in ComboKeys \cap DOMAIN outputs : IsDiracDelta(outputs[key])
        /\ mpc = "returned" =>
            /\ ComboKeys \subseteq DOMAIN outputs
            /\ DOMAIN modelrefinds[1] = DOMAIN cat_folder
            /\ \A s \in DOMAIN cat_folder : modelrefinds[1][s] = 0

C9_Witness ==
    /\ mpc = "returned"
    /\ ~cfg.include_perturb_auf
    /\ Len(cat_folder) = 2
    /\ cat_folder[1].pos # cat_folder[2].pos

\* no catalogue row of tile i has a magnitude in filter j
EmptyBin(i, j) ==
    \A s \in DOMAIN cat_folder :
        modelrefinds[3][s] = i => cat_folder[s].photo[j + 1] = "nan"

SimulationCalls(i, j) ==
    {n \in DOMAIN events :
        /\ events[n].op \in {"calculate_local_density", "create_single_perturb_auf"}
        /\ events[n].i = i
        /\ events[n].j = j}

\* C10: on return perturb_auf_outputs holds exactly one bundle per (tile,
\* filter) combination, each with exactly the seven fields, and the three
\* grids.  With include_perturb_auf True, a bin without a valid magnitude
\* never has calculate_local_density or create_single_perturb_auf called for
\* it, and once filled it holds the Dirac-delta bundle with arraylengths 0.
C10_FullOutputSchema ==
    /\ mpc = "returned" =>
        /\ DOMAIN outputs = ComboKeys \cup GridKeys
        /\ \A key \in ComboKeys : DOMAIN outputs[key] = BundleFields
    /\ (Started /\ cfg.include_perturb_auf) =>
        \A i \in 0 .. Len(auf_points) - 1, j \in 0 .. Len(filters) - 1 :
            EmptyBin(i, j) =>
                /\ SimulationCalls(i, j) = {}
                /\ perturb_auf_combo(i, j) \in DOMAIN outputs =>
                    /\ IsDiracDelta(outputs[perturb_auf_combo(i, j)])
                    /\ arraylengths[j + 1][i + 1] = 0

C10_Witness ==
    /\ mpc = "returned"
    /\ cfg.include_perturb_auf
    /\ EmptyBin(0, 0)
    /\ ~EmptyBin(0, 1)
    /\ arraylengths[2][1] = 1
    /\ SimulationCalls(0, 1) # {}
    /\ EmptyBin(1, 0)
    /\ EmptyBin(1, 1)

C25_Downloads(i) ==
    {n \in DOMAIN events : events[n] = Event("download_trilegal_simulation", i, -1)}

C25_TileStarted(i) ==
    \E n \in DOMAIN events : events[n] = Event("os.makedirs", i, -1)

\* C25: a tile whose iteration has started has had a TRILEGAL download
\* requested exactly when include_perturb_auf is True, the tile holds a
\* catalogue source, and tri_download_flag is True or os.path.isfile
\* answered that the tile's simulation file does not exist; no tile has more
\* than one download, a tile not yet started has none, and a download is
\* only ever requested on a call that passed every configuration check.
C25_DownloadIffNeeded ==
    /\ \A i \in 0 .. Len(auf_points) - 1 :
           /\ Cardinality(C25_Downloads(i)) <= 1
           /\ ~C25_TileStarted(i) => C25_Downloads(i) = {}
           /\ C25_TileStarted(i) =>
                  (C25_Downloads(i) # {} <=>
                      /\ cfg.include_perturb_auf
                      /\ \E s \in DOMAIN cat_folder : modelrefinds[3][s] = i
                      /\ cfg.tri_download_flag \/ trifile[i + 1] = "absent")
    /\ (\E i \in 0 .. Len(auf_points) - 1 : C25_Downloads(i) # {}) =>
           (Started /\ MissingRequired(cfg) = {})

\* a call that found the simulation of the first tile on disk and
\* downloaded the one of the second
C25_Witness ==
    /\ mpc = "returned"
    /\ ~cfg.tri_download_flag
    /\ trifile = <<"present", "absent">>
    /\ C25_Downloads(0) = {}
    /\ C25_Downloads(1) # {}

\* C26: a call with include_perturb_auf True and both run_fw and run_psf
\* False is rejected by the configuration checks: once they have run the
\* call has raised a ValueError and nothing has been loaded, created,
\* downloaded or simulated.
C26_NoAlgorithmRejected ==
    (/\ Started
     /\ cfg.include_perturb_auf
     /\ Arg(cfg, "run_fw") = "False"
     /\ Arg(cfg, "run_psf") = "False") =>
        /\ mpc = "raised"
        /\ mraised.type = "ValueError"
        /\ events = <<>>

(***************************************************************************)
(* create_single_perturb_auf (perturbation_auf.py:731-991), on its own:    *)
(* the counts of bright simulated sources, the check on their total, the   *)
(* draw of the trial seeds and the two perturbation algorithms.  The       *)
(* caller's loop calls it again; here it is called twice on the same       *)
(* arguments and the same simulation files.                                *)
(***************************************************************************)
\* largest number of (density, magnitude) combinations, len(count_array)
MaxCombos == 2
\* largest seed value explored, of the 100000 values choice() draws from
MaxSeed == 1
\* fewest bright simulated sources accepted (perturbation_auf.py:906)
MinBrightSources == 100

\* what the simulation files and the count models give on these arguments:
\* num_bright_obj of make_tri_counts, tri_count and gal_count (quotients
\* that are exact in binary floating point), and whether make_tri_counts
\* accepts the files
SimCounts(fit_gal_flag) ==
    [n_bright_sources_star : {0, 57, 99, 100, 101},
     tri_count : {0, 2, 4},
     gal_count : IF fit_gal_flag THEN {0, 1, 3} ELSE {0},
     tri_valid : BOOLEAN]

CspArgs ==
    [fit_gal_flag : BOOLEAN, run_fw : BOOLEAN, run_psf : BOOLEAN,
     ncombo : 1 .. MaxCombos]

tot_n_bright_sources_stars_only(a, sim) ==
    sim.n_bright_sources_star

\* n_bright_sources_gal is int(gal_count / tri_count * n_bright_sources_star),
\* with tri_count > 0
tot_n_bright_sources(a, sim) ==
    IF a.fit_gal_flag
    THEN sim.n_bright_sources_star
         + (sim.gal_count * sim.n_bright_sources_star) \div sim.tri_count
    ELSE sim.n_bright_sources_star

\* the outcome of int() on a quotient by tri_count = 0: nan or infinity
IntOfNonFinite(sim) ==
    IF sim.gal_count = 0 \/ sim.n_bright_sources_star = 0
    THEN "ValueError" ELSE "OverflowError"

count_too_low_inclusive(tot) == tot <= MinBrightSources

count_too_low(tot) == tot < MinBrightSources

\* one seed per combination (the rows of the seed array are kept as one)
Seeds(ncombo) == [1 .. ncombo -> 0 .. MaxSeed]

NoResult == [kind |-> "none", at |-> "none", bundle |-> <<>>]

CspRaise(kind, at) == [kind |-> kind, at |-> at, bundle |-> <<>>]

\* paf.perturb_aufs is compiled code: its result is kept as the algorithm
\* it ran and the seeds it was given
perturb_aufs(mode, seed) == [mode |-> mode, seed |-> seed]

CspLocals(call, a, sim, first) ==
    [pc |-> "counts", call |-> call, args |-> a, sim |-> sim,
     counted |-> FALSE, tot |-> 0, seed |-> <<>>, perturb_calls |-> <<>>,
     result |-> NoResult, first |-> first]

CspOthers == <<pvars, mvars, dts, cld, asm, lcg, cmo, gmo, acs>>

CspInit ==
    /\ PairingIdle
    /\ MpaIdle
    /\ dts = <<>> /\ cld = <<>> /\ asm = <<>> /\ lcg = <<>>
    /\ cmo = <<>> /\ gmo = <<>> /\ acs = <<>>
    /\ \E a \in CspArgs : \E sim \in SimCounts(a.fit_gal_flag) :
           csp = CspLocals(1, a, sim, <<>>)

\* lines 850-904: make_tri_counts, create_galaxy_counts and the total
CountBrightSources ==
    /\ csp # <<>> /\ csp.pc = "counts"
    /\ IF ~csp.sim.tri_valid
       THEN csp' = [csp EXCEPT !.pc = "raised",
                               !.result = CspRaise("ValueError", "make_tri_counts")]
       ELSE IF csp.args.fit_gal_flag /\ csp.sim.tri_count = 0
       THEN csp' = [csp EXCEPT !.pc = "raised",
                               !.result = CspRaise(IntOfNonFinite(csp.sim), "int")]
       ELSE csp' = [csp EXCEPT !.pc = "check", !.counted = TRUE,
                               !.tot = tot_n_bright_sources(csp.args, csp.sim)]
    /\ UNCHANGED CspOthers

\* lines 906-909
CheckBrightSources ==
    /\ csp # <<>> /\ csp.pc = "check"
    /\ IF count_too_low(csp.tot)
       THEN csp' = [csp EXCEPT !.pc = "raised",
                               !.result = CspRaise("ValueError", "too_low")]
       ELSE csp' = [csp EXCEPT !.pc = "seed"]
    /\ UNCHANGED CspOthers

\* lines 911-947: np.random.default_rng() takes fresh entropy from the
\* operating system, so any seed array can come out
DrawSeed ==
    /\ csp # <<>> /\ csp.pc = "seed"
    /\ \E s \in Seeds(csp.args.ncombo) :
           csp' = [csp EXCEPT !.pc = "fw", !.seed = s]
    /\ UNCHANGED CspOthers

\* lines 951-956
PerturbFw ==
    /\ csp # <<>> /\ csp.pc = "fw"
    /\ csp' = [csp EXCEPT !.pc = "psf",
                   !.perturb_calls =
                       IF csp.args.run_fw
                       THEN Append(@, perturb_aufs("fw", csp.seed)) ELSE @]
    /\ UNCHANGED CspOthers

\* lines 957-962
PerturbPsf ==
    /\ csp # <<>> /\ csp.pc = "psf"
    /\ csp' = [csp EXCEPT !.pc = "combine",
                   !.perturb_calls =
                       IF csp.args.run_psf
                       THEN Append(@, perturb_aufs("psf", csp.seed)) ELSE @]
    /\ UNCHANGED CspOthers

\* lines 964-991: with neither algorithm run, flux_psf is unbound
CombineAndReturn ==
    /\ csp # <<>> /\ csp.pc = "combine"
    /\ IF ~csp.args.run_fw /\ ~csp.args.run_psf
       THEN csp' = [csp EXCEPT !.pc = "raised",
                               !.result = CspRaise("UnboundLocalError", "combine")]
       ELSE csp' = [csp EXCEPT !.pc = "returned",
                               !.result = [kind |-> "bundle", at |-> "return",
                                           bundle |-> csp.perturb_calls]]
    /\ UNCHANGED CspOthers

\* the caller's next call, on the same arguments and files
CallAgain ==
    /\ csp # <<>> /\ csp.pc \in {"returned", "raised"} /\ csp.call = 1
    /\ csp' = CspLocals(2, csp.args, csp.sim,
                        [seed |-> csp.seed, result |-> csp.result])
    /\ UNCHANGED CspOthers

CspNext ==
    \/ CountBrightSources
    \/ CheckBrightSources
    \/ DrawSeed
    \/ PerturbFw
    \/ PerturbPsf
    \/ CombineAndReturn
    \/ CallAgain

SpecSinglePerturbAuf == CspInit /\ [][CspNext]_vars

\* the total of bright simulated sources, from the arguments of the call
C11_Total ==
    csp.sim.n_bright_sources_star
    + (IF csp.args.fit_gal_flag
       THEN (csp.sim.gal_count * csp.sim.n_bright_sources_star)
                \div csp.sim.tri_count
       ELSE 0)

C11_RaisedValueError == csp.pc = "raised" /\ csp.result.kind = "ValueError"

\* C11: once the total of bright simulated sources (Galactic, plus the
\* scaled galaxy number when fit_gal_flag is True) is computed,
\* create_single_perturb_auf raises a ValueError exactly when that total is
\* below 100; it raises before any seed is drawn or any perturbation
\* simulation is run, and no bundle is returned.
C11_TooFewSourcesRaises ==
    (csp.counted /\ csp.pc # "check") =>
        /\ C11_RaisedValueError <=> (C11_Total < 100)
        /\ C11_RaisedValueError =>
               /\ csp.seed = <<>>
               /\ csp.perturb_calls = <<>>
               /\ csp.result.bundle = <<>>

\* the galaxy share decides: 57 Galactic sources and 42 scaled galaxies
C11_Witness ==
    /\ csp.counted
    /\ C11_RaisedValueError
    /\ csp.args.fit_gal_flag
    /\ csp.sim.n_bright_sources_star = 57
    /\ csp.sim.gal_count = 3 /\ csp.sim.tri_count = 4

\* C17: the seeds are drawn once per (density, magnitude) combination, the
\* flux-weighted and the PSF run of one call receive the same seed array,
\* and two calls on identical inputs use identical seeds and return
\* identical bundles.
C17_SeedsReproducible ==
    /\ csp.seed # <<>> => Len(csp.seed) = csp.args.ncombo
    /\ \A k \in DOMAIN csp.perturb_calls : csp.perturb_calls[k].seed = csp.seed
    /\ (csp.call = 2 /\ csp.pc = "returned") =>
           /\ csp.seed = csp.first.seed
           /\ csp.result = csp.first.result

(***************************************************************************)
(* download_trilegal_simulation (perturbation_auf.py:501-637), on its own. *)
(* The provider call get_trilegal is outside this package; each call ends  *)
(* with a good result (the simulation file is written), with "timeout" or  *)
(* "nocomm" (no file is written), or is cut short by the SIGALRM handler.  *)
(* Areas are exact fractions num/den of a square degree.                   *)
(***************************************************************************)
\* most halvings of the area explored in one call of the function
MaxHalvings == 2
\* largest simulation area, in square degrees (perturbation_auf.py:551)
MaxTriArea == 10
\* nocomm responses that end the function (perturbation_auf.py:580)
MaxNoComm == 5
\* fewest simulated objects below which the area is tenfolded
\* (perturbation_auf.py:603)
FewObjs == 10000
\* total_objs, the default of the signature (perturbation_auf.py:502)
total_objs == 1500000

RECURSIVE GCD(_, _)
GCD(a, b) == IF b = 0 THEN a ELSE GCD(b, a % b)

Frac(n, d) == [num |-> n \div GCD(n, d), den |-> d \div GCD(n, d)]

FracLess(x, y) == x.num * y.den < y.num * x.den

\* min(10, x)
min_tri_area(x) == IF FracLess(Frac(MaxTriArea, 1), x) THEN Frac(MaxTriArea, 1) ELSE x

area_unchanged(x) == x

\* triarea /= 2
halve_area(x) == Frac(x.num, 2 * x.den)

\* min(10, triarea*10)
tenfold_area(x) == min_tri_area(Frac(10 * x.num, x.den))

\* min(10, triarea / nobjs * total_objs)
scale_area(x, nobjs) == min_tri_area(Frac(x.num * total_objs, x.den * nobjs))

\* min_area as make_perturb_aufs can pass it
MinAreas == {Frac(1, 2), Frac(3, 1), Frac(12, 1)}

\* len(contents) - 2 of a simulation file the provider wrote
NobjsValues == {5000, 750000, 1500000}

\* the arguments of get_trilegal other than the area
FixedRequest ==
    [tri_name |-> "trilegal_auf_simulation", ax1 |-> "ax1", ax2 |-> "ax2",
     folder |-> "tri_folder", galactic |-> "galactic_flag",
     filterset |-> "tri_filter_set", maglim |-> "mag_lim", magnum |-> "mag_num",
     av |-> "av", sigma_av |-> "sigma_av"]

get_trilegal_call(triarea) == [area |-> triarea, rest |-> FixedRequest]

nocomm_limit_reached_late(n) == n > MaxNoComm

\* nocomm_count >= 5
nocomm_limit_reached(n) == n >= MaxNoComm

nocomm_count_kept(n) == n

\* nocomm_count = 0, at the head of each pass of the outer loop
nocomm_count_reset(n) == 0

NoFile == [present |-> FALSE, nobjs |-> 0, header |-> <<>>]

rm_kept(f) == f

\* os.system(f'rm {tri_folder}/{tri_name}.dat'), line 624
rm_simulation_file(f) == NoFile

increase_always(area_halved) == TRUE

\* "and not area_halved" of lines 603 and 614
increase_allowed(area_halved) == ~area_halved

NoCall == [request |-> <<>>, armed |-> FALSE, outcome |-> "none", loop |-> "none",
           after |-> "none", prev_request |-> <<>>, between |-> <<>>]

\* the record of a provider call: what was requested, whether the alarm was
\* armed, how it ended, how the call before it ended and what was done with
\* the simulation file between the two
CallRecord(d, outcome, where) ==
    [request |-> get_trilegal_call(d.triarea), armed |-> d.alarm = "armed",
     outcome |-> outcome, loop |-> where, after |-> d.last.outcome,
     prev_request |-> d.last.request, between |-> d.between]

DtsOthers == <<pvars, mvars, csp, cld, asm, lcg, cmo, gmo, acs>>

DtsInit ==
    /\ PairingIdle
    /\ MpaIdle
    /\ csp = <<>> /\ cld = <<>> /\ asm = <<>> /\ lcg = <<>>
    /\ cmo = <<>> /\ gmo = <<>> /\ acs = <<>>
    /\ \E min_area \in MinAreas :
           dts = [pc |-> "while_areaflag", areaflag |-> 0,
                  triarea |-> min_tri_area(min_area), area_halved |-> FALSE,
                  halvings |-> 0, result |-> "none", nocomm_count |-> 0,
                  accept_results |-> "unset", alarm |-> "off", file |-> NoFile,
                  last |-> NoCall, between |-> <<>>, pass_nocomm |-> 0,
                  error |-> "none"]

\* lines 559-563, and 625-626 once areaflag is set
WhileAreaflag ==
    /\ dts # <<>> /\ dts.pc = "while_areaflag"
    /\ IF dts.areaflag = 0
       THEN dts' = [dts EXCEPT !.pc = "while_result", !.result = "timeout",
                               !.nocomm_count = nocomm_count_reset(@)]
       ELSE IF dts.accept_results = FALSE
       THEN dts' = [dts EXCEPT !.pc = "while_final", !.result = "timeout"]
       ELSE dts' = [dts EXCEPT !.pc = "write"]
    /\ UNCHANGED DtsOthers

\* lines 564-571, and the else clause 590-593 when the loop ends
WhileResult ==
    /\ dts # <<>> /\ dts.pc = "while_result"
    /\ IF dts.result \in {"timeout", "nocomm"}
       THEN dts' = [dts EXCEPT !.pc = "get_trilegal", !.alarm = "armed"]
       ELSE dts' = [dts EXCEPT !.pc = "read", !.alarm = "off"]
    /\ UNCHANGED DtsOthers

\* lines 572-589, the alarm going off during the call
AlarmFires ==
    /\ dts # <<>> /\ dts.pc = "get_trilegal"
    /\ dts.alarm = "armed"
    /\ dts.halvings < MaxHalvings
    /\ dts' = [dts EXCEPT !.pc = "while_areaflag", !.alarm = "off",
                          !.triarea = halve_area(@), !.area_halved = TRUE,
                          !.halvings = @ + 1,
                          !.last = CallRecord(dts, "alarm", "retry"),
                          !.between = <<>>, !.pass_nocomm = 0]
    /\ UNCHANGED DtsOthers

\* lines 572-582, the call returning "timeout" or "nocomm"
NoResultYet ==
    /\ dts # <<>> /\ dts.pc = "get_trilegal"
    /\ \E res \in {"timeout", "nocomm"} :
         LET n == IF res = "nocomm" THEN dts.nocomm_count + 1 ELSE dts.nocomm_count
             seen == IF res = "nocomm" THEN dts.pass_nocomm + 1 ELSE dts.pass_nocomm
         IN  dts' = [dts EXCEPT
                 !.pc = IF nocomm_limit_reached(n) THEN "raised" ELSE "while_result",
                 !.error = IF nocomm_limit_reached(n) THEN "HTTPError" ELSE @,
                 !.result = res, !.nocomm_count = n, !.pass_nocomm = seen,
                 !.last = CallRecord(dts, res, "retry"), !.between = <<>>]
    /\ UNCHANGED DtsOthers

\* lines 572-582, the call returning a simulation of nobjs objects
GoodResult ==
    /\ dts # <<>> /\ dts.pc = "get_trilegal"
    /\ \E nobjs \in NobjsValues :
         dts' = [dts EXCEPT
                 !.pc = IF nocomm_limit_reached(dts.nocomm_count)
                        THEN "raised" ELSE "while_result",
                 !.error = IF nocomm_limit_reached(dts.nocomm_count)
                           THEN "HTTPError" ELSE @,
                 !.result = "good",
                 !.file = [present |-> TRUE, nobjs |-> nobjs, header |-> <<>>],
                 !.last = CallRecord(dts, "good", "retry"), !.between = <<>>]
    /\ UNCHANGED DtsOthers

\* lines 594-624
ReadSimulation ==
    /\ dts # <<>> /\ dts.pc = "read"
    /\ LET nobjs == dts.file.nobjs
           few == nobjs < FewObjs /\ increase_allowed(dts.area_halved)
           some == ~few /\ nobjs < total_objs /\ increase_allowed(dts.area_halved)
           area == IF few THEN tenfold_area(dts.triarea)
                   ELSE IF some THEN scale_area(dts.triarea, nobjs)
                   ELSE dts.triarea
           accept == ~few /\ ~some
       IN  dts' = [dts EXCEPT
               !.pc = "while_areaflag",
               !.triarea = area,
               !.areaflag = IF few /\ area # Frac(MaxTriArea, 1) THEN 0 ELSE 1,
               !.accept_results = accept,
               !.file = IF accept THEN @ ELSE rm_simulation_file(@),
               !.between = @ \o (IF accept THEN <<"read">> ELSE <<"read", "rm">>),
               !.pass_nocomm = IF few \/ some THEN 0 ELSE @]
    /\ UNCHANGED DtsOthers

\* line 627
WhileFinal ==
    /\ dts # <<>> /\ dts.pc = "while_final"
    /\ IF dts.result = "timeout"
       THEN dts' = [dts EXCEPT !.pc = "get_trilegal_final"]
       ELSE dts' = [dts EXCEPT !.pc = "write"]
    /\ UNCHANGED DtsOthers

\* lines 628-631: no alarm is set here, the one of line 571 was cancelled
\* at line 593
FinalRequest ==
    /\ dts # <<>> /\ dts.pc = "get_trilegal_final"
    /\ \E res \in {"timeout", "nocomm", "good"} : \E nobjs \in NobjsValues :
         dts' = [dts EXCEPT
                 !.pc = "while_final", !.result = res,
                 !.file = IF res = "good"
                          THEN [present |-> TRUE, nobjs |-> nobjs, header |-> <<>>]
                          ELSE @,
                 !.last = CallRecord(dts, res, "final"), !.between = <<>>]
    /\ UNCHANGED DtsOthers

\* lines 632-637
WriteHeader ==
    /\ dts # <<>> /\ dts.pc = "write"
    /\ IF dts.file.present
       THEN dts' = [dts EXCEPT !.pc = "returned",
                               !.file.header = <<dts.triarea, "av_inf">>]
       ELSE dts' = [dts EXCEPT !.pc = "raised", !.error = "FileNotFoundError"]
    /\ UNCHANGED DtsOthers

DtsNext ==
    \/ WhileAreaflag
    \/ WhileResult
    \/ AlarmFires
    \/ NoResultYet
    \/ GoodResult
    \/ ReadSimulation
    \/ WhileFinal
    \/ FinalRequest
    \/ WriteHeader

SpecDownload == DtsInit /\ [][DtsNext]_vars

\* the function is a sequential program: while it has a next statement it
\* executes it
SpecDownloadRuns == DtsInit /\ [][DtsNext]_vars /\ WF_vars(DtsNext)

\* C12: whenever the alarm cut a provider call short, the next provider call
\* asks for exactly half the area of that call with every other argument
\* unchanged, and the simulation file is neither read nor removed between
\* the two calls.
C12_TimeoutHalvesArea ==
    (dts.last.outcome # "none" /\ dts.last.after = "alarm") =>
        /\ 2 * dts.last.request.area.num * dts.last.prev_request.area.den
               = dts.last.prev_request.area.num * dts.last.request.area.den
        /\ dts.last.request.rest = dts.last.prev_request.rest
        /\ dts.last.between = <<>>

\* a retry after a fired alarm has come back with a simulation
C12_Witness ==
    /\ dts.last.after = "alarm"
    /\ dts.last.outcome = "good"
    /\ dts.last.request.area = Frac(3, 2)

\* C13: the HTTPError is raised on the fifth "nocomm" response counted
\* since the last halving or increase of the area ("timeout" responses in
\* between do not restart the count), never earlier, and it ends the
\* function.
C13_FifthNoCommIsFatal ==
    /\ dts.pass_nocomm >= 5 => (dts.pc = "raised" /\ dts.error = "HTTPError")
    /\ dts.error = "HTTPError" =>
           /\ dts.pc = "raised"
           /\ dts.pass_nocomm = 5
           /\ dts.last.outcome = "nocomm"

\* the fifth nocomm of a pass that follows a halving
C13_Witness ==
    /\ dts.error = "HTTPError"
    /\ dts.pass_nocomm = 5
    /\ dts.area_halved
    /\ dts.last.after = "timeout"

\* C14: for every sequence of provider responses the function makes
\* finitely many provider calls and then ends, by returning or by raising.
C14_EventuallyReturnsOrFails ==
    <>(dts.pc \in {"returned", "raised"})

\* C15: every provider call is made with the alarm armed, the final
\* re-request after the rescaling of the area included.
C15_EveryCallUnderAlarm ==
    dts.last.outcome # "none" => dts.last.armed

\* C24: once a provider call has been cut short and the area halved, the
\* area is only ever left alone or halved again, and a provider call that
\* then returns a good result is accepted whatever its object count: the
\* file it wrote is kept and no further provider call is made.
C24_NoIncreaseAfterHalving ==
    [][dts # <<>> /\ dts.area_halved =>
         /\ dts'.triarea \in {dts.triarea, halve_area(dts.triarea)}
         /\ dts.pc = "read" =>
                (dts'.accept_results = TRUE /\ dts'.file = dts.file)
         /\ dts.last.outcome = "good" => dts'.last = dts.last]_vars

\* after two halvings a simulation of too few objects was accepted and the
\* function returned
C24_Witness ==
    /\ dts.pc = "returned"
    /\ dts.halvings = 2
    /\ dts.file.nobjs < FewObjs
    /\ dts.accept_results = TRUE
    /\ dts.last.request.area = Frac(3, 4)

\* C27: the header is written only into a file that the last provider call
\* produced with a good result, the area of the header is the area that
\* call requested, and the function returns only with the header written.
C27_HeaderAfterGoodResult ==
    /\ dts.file.header # <<>> =>
           /\ dts.file.present
           /\ dts.last.outcome = "good"
           /\ dts.file.header[1] = dts.last.request.area
    /\ dts.pc = "returned" => dts.file.header # <<>>
    /\ dts.pc = "write" /\ dts.file.present => dts.last.outcome = "good"

\* the header was written after the re-request at the rescaled area, which
\* had first come back with "timeout"
C27_Witness ==
    /\ dts.pc = "returned"
    /\ dts.last.loop = "final"
    /\ dts.last.after = "timeout"
    /\ dts.file.header = <<Frac(6, 1), "av_inf">>

\* C28: when the function has ended, by returning or by raising, the alarm
\* of line 571 is not armed.
C28_NoAlarmLeftArmed ==
    dts.pc \in {"returned", "raised"} => dts.alarm = "off"

(***************************************************************************)
(* calculate_local_density (perturbation_auf.py:640-727), on its own.      *)
(* Positions are points of a small integer grid on a flat sky, a source    *)
(* is near another when their squared distance is at most the squared      *)
(* radius.  _load_rectangular_slice and paf.get_density are outside this   *)
(* file.  The division by the circle overlap area is left out: the model   *)
(* keeps full_counts.                                                      *)
(***************************************************************************)
\* largest catalogue given to calculate_local_density
MaxDensitySources == 3
\* largest value an unwritten entry of np.empty is explored with
MaxGarbage == 2
\* density_radius, in grid steps
density_radius == 1

\* one catalogue row: position, a_tot_photo <= density_mag, and whether
\* the row is one of a_astro
DensityRows ==
    [pos : {<<0, 0>>, <<1, 0>>, <<2, 0>>, <<1, 1>>}, bright : BOOLEAN,
     selected : BOOLEAN]

DensityCatalogues == UNION {[1 .. n -> DensityRows] : n \in 1 .. MaxDensitySources}

SetMax(S) == CHOOSE x \in S : \A y \in S : y <= x

\* _load_rectangular_slice: the rows inside the rectangle widened by padding
load_rectangular_slice(rows, lon1, lon2, lat1, lat2, padding) ==
    {s \in DOMAIN rows :
        /\ rows[s].pos[1] >= lon1 - padding /\ rows[s].pos[1] <= lon2 + padding
        /\ rows[s].pos[2] >= lat1 - padding /\ rows[s].pos[2] <= lat2 + padding}

\* paf.get_density: for one position, the number of the given rows within
\* the radius
get_density(pos, rows, among) ==
    Cardinality({b \in among :
                   Dist2(pos, rows[b].pos) <= density_radius * density_radius})

\* np.linspace(lo, hi, 11), or in steps of about one degree when those 11
\* points are less than a degree apart: int(np.ceil(hi - lo) + 1) points
linspace_loops(lo, hi) ==
    IF hi - lo < 10
    THEN [k \in 1 .. (hi - lo) + 1 |-> lo + (k - 1)]
    ELSE [k \in 1 .. 11 |-> lo + ((k - 1) * (hi - lo)) \div 10]

\* zip(ax1_loops[:-1], ax1_loops[1:]) x zip(ax2_loops[:-1], ax2_loops[1:]),
\* in the order of the two for loops
SubTiles(ax1_loops, ax2_loops) ==
    LET n1 == Len(ax1_loops) - 1
        n2 == Len(ax2_loops) - 1
    IN  IF n1 <= 0 \/ n2 <= 0 THEN <<>>
        ELSE [k \in 1 .. n1 * n2 |->
                 LET p == ((k - 1) \div n2) + 1
                     q == ((k - 1) % n2) + 1
                 IN  [ax1_start |-> ax1_loops[p], ax1_end |-> ax1_loops[p + 1],
                      ax2_start |-> ax2_loops[q], ax2_end |-> ax2_loops[q + 1]]]

zero_count_kept(c) == c

\* counts[counts == 0] = 1
zero_count_to_one(c) == IF c = 0 THEN 1 ELSE c

Unwritten == [written |-> FALSE, count |-> 0]

CldOthers == <<pvars, mvars, csp, dts, asm, lcg, cmo, gmo, acs>>

CldInit ==
    /\ PairingIdle
    /\ MpaIdle
    /\ csp = <<>> /\ dts = <<>> /\ asm = <<>> /\ lcg = <<>>
    /\ cmo = <<>> /\ gmo = <<>> /\ acs = <<>>
    /\ \E rows \in DensityCatalogues :
         /\ \E s \in DOMAIN rows : rows[s].selected
         /\ cld = [pc |-> "bounds", a_tot |-> rows, cut |-> {}, tiles |-> <<>>,
                   k |-> 0, full_counts |-> <<>>, writes |-> <<>>,
                   result |-> <<>>, error |-> "none"]

\* lines 670-688: the bounds of a_astro, the bright rows around them, the
\* sub-tiles, and full_counts = np.empty
SplitRegion ==
    /\ cld # <<>> /\ cld.pc = "bounds"
    /\ LET rows == cld.a_tot
           a_astro == {s \in DOMAIN rows : rows[s].selected}
           min_lon == SetMin({rows[s].pos[1] : s \in a_astro})
           max_lon == SetMax({rows[s].pos[1] : s \in a_astro})
           min_lat == SetMin({rows[s].pos[2] : s \in a_astro})
           max_lat == SetMax({rows[s].pos[2] : s \in a_astro})
           overlap_sky_cut == load_rectangular_slice(rows, min_lon, max_lon,
                                                     min_lat, max_lat, density_radius)
       IN  cld' = [cld EXCEPT
               !.pc = "loop",
               !.cut = {s \in overlap_sky_cut : rows[s].bright},
               !.tiles = SubTiles(linspace_loops(min_lon, max_lon),
                                  linspace_loops(min_lat, max_lat)),
               !.full_counts = [s \in DOMAIN rows |-> Unwritten],
               !.writes = [s \in DOMAIN rows |-> {}]]
    /\ UNCHANGED CldOthers

\* lines 689-716, one sub-tile
SubTile ==
    /\ cld # <<>> /\ cld.pc = "loop"
    /\ cld.k < Len(cld.tiles)
    /\ LET rows == cld.a_tot
           t == cld.tiles[cld.k + 1]
           small_sky_cut ==
               {s \in load_rectangular_slice(rows, t.ax1_start, t.ax1_end,
                                             t.ax2_start, t.ax2_end, 0) :
                    rows[s].selected}
           overlap ==
               cld.cut \cap load_rectangular_slice(rows, t.ax1_start, t.ax1_end,
                                                   t.ax2_start, t.ax2_end,
                                                   density_radius)
           counts(s) == IF overlap = {} THEN 1
                        ELSE zero_count_to_one(get_density(rows[s].pos, rows, overlap))
       IN  cld' = [cld EXCEPT
               !.k = @ + 1,
               !.full_counts = [s \in DOMAIN rows |->
                                   IF s \in small_sky_cut
                                   THEN [written |-> TRUE, count |-> counts(s)]
                                   ELSE @[s]],
               !.writes = [s \in DOMAIN rows |->
                              IF s \in small_sky_cut
                              THEN @[s] \cup {counts(s)} ELSE @[s]]]
    /\ UNCHANGED CldOthers

\* lines 717-727: np.amin of an empty a_astro_overlap_cut raises; an entry
\* of full_counts no sub-tile wrote holds whatever np.empty found in memory
ReturnDensity ==
    /\ cld # <<>> /\ cld.pc = "loop"
    /\ cld.k = Len(cld.tiles)
    /\ IF cld.cut = {}
       THEN cld' = [cld EXCEPT !.pc = "raised", !.error = "ValueError"]
       ELSE \E garbage \in [DOMAIN cld.a_tot -> 0 .. MaxGarbage] :
              /\ \A s \in DOMAIN cld.a_tot :
                     cld.full_counts[s].written \/ ~cld.a_tot[s].selected
                         => garbage[s] = 0
              /\ cld' = [cld EXCEPT
                     !.pc = "returned",
                     !.result = [s \in DOMAIN cld.a_tot |->
                                    IF cld.full_counts[s].written
                                    THEN cld.full_counts[s].count
                                    ELSE garbage[s]]]
    /\ UNCHANGED CldOthers

CldNext ==
    \/ SplitRegion
    \/ SubTile
    \/ ReturnDensity

SpecLocalDensity == CldInit /\ [][CldNext]_vars

\* the bright catalogue rows within density_radius of row s
C18_BrightNear(s) ==
    {b \in DOMAIN cld.a_tot :
        /\ cld.a_tot[b].bright
        /\ Dist2(cld.a_tot[s].pos, cld.a_tot[b].pos) <= density_radius * density_radius}

\* C18: the count of a source does not depend on the sub-tiles: every
\* sub-tile that holds the source writes the same count for it, and the
\* count returned for every source is the number of bright catalogue
\* sources within density_radius of it.
C18_DensityIndependentOfTiling ==
    /\ cld.pc # "bounds" =>
           \A s \in DOMAIN cld.a_tot : Cardinality(cld.writes[s]) <= 1
    /\ cld.pc = "returned" =>
           \A s \in DOMAIN cld.a_tot :
               cld.a_tot[s].selected =>
                   cld.result[s] = Cardinality(C18_BrightNear(s))

\* C30: when the function returns, every source of a_astro was written by
\* at least one sub-tile and its count is at least 1.
C30_EveryCountAtLeastOne ==
    cld.pc = "returned" =>
        \A s \in DOMAIN cld.a_tot :
            cld.a_tot[s].selected =>
                /\ cld.full_counts[s].written
                /\ cld.result[s] >= 1

(***************************************************************************)
(* The model reference index of make_perturb_aufs                          *)
(* (perturbation_auf.py:265-273 and 430-478) with the simulated densities  *)
(* and magnitudes as numbers: row 2 from find_nearest_point, row 0 from    *)
(* np.argmin over the combinations of the source's filter and tile, row 1  *)
(* from magref.                                                            *)
(***************************************************************************)
\* (density, magnitude) combinations of one filter and tile, as
\* narrays[:arraylengths[j, i], j, i] and magarrays[:arraylengths[j, i], j, i]
NoCombos == <<>>

\* narrays and magarrays, [filter][tile]
NmGrids ==
    LET two == <<[n |-> 1, m |-> 1], [n |-> 1, m |-> 3]>>
        three == <<[n |-> 3, m |-> 3], [n |-> 3, m |-> 1], [n |-> 1, m |-> 3]>>
    IN  { << <<two, three>>, <<three, two>> >>,
          << <<three, NoCombos>>, <<two, three>> >>,
          << <<NoCombos, two>>, <<three, NoCombos>> >> }

\* one source: its position, its best filter, and its magnitude and local
\* density in that filter; local_n stays 0 where the magnitude is nan (the
\* value kept in mag is then not a magnitude)
AsmRows ==
    [pos : SkyPositions, magref : 0 .. Len(filters) - 1, isnan : {FALSE},
     mag : {1, 3}, localn : {1, 3}]
    \cup [pos : SkyPositions, magref : 0 .. Len(filters) - 1, isnan : {TRUE},
          mag : {0}, localn : {0}]

AsmCatalogues == UNION {[1 .. n -> AsmRows] : n \in 0 .. MaxSources}

\* a filter and tile in which a source is detected has a simulation
GridsMatch(a, grids) ==
    \A s \in DOMAIN a :
        ~a[s].isnan =>
            grids[a[s].magref + 1][find_nearest_point(a[s].pos) + 1] # NoCombos

\* arraylengths[j, i] = len(perturb_auf_outputs[perturb_auf_combo]['Narray'])
arraylengths_of(grids) ==
    [j \in DOMAIN grids |-> [i \in DOMAIN grids[j] |-> Len(grids[j][i])]]

\* the fill_value of np.full
NmFill == [n |-> -1, m |-> -1]

\* narrays and magarrays after lines 432-447, [filter][tile][combination]
np_full_nm(grids, al) ==
    [j \in DOMAIN grids |->
        [i \in DOMAIN grids[j] |->
            [k \in 1 .. longestnm(al) |->
                IF k <= al[j][i] THEN grids[j][i][k] ELSE NmFill]]]

\* narrays[:arraylengths[filterind, axind], filterind, axind], with magarrays
nm_slice(nm, al, filterind, axind) ==
    SubSeq(nm[filterind + 1][axind + 1], 1, al[filterind + 1][axind + 1])

nm_distance_density_only(row, combo) ==
    (row.localn - combo.n) * (row.localn - combo.n)

\* (localn[i, filterind] - narrays[...])**2 + (a[i, filterind] - magarrays[...])**2
nm_distance(row, combo) ==
    (row.localn - combo.n) * (row.localn - combo.n)
    + (row.mag - combo.m) * (row.mag - combo.m)

np_argmin_one_based(row, combos) ==
    IF row.isnan THEN 1
    ELSE SetMin({k \in DOMAIN combos :
                   \A q \in DOMAIN combos :
                       nm_distance(row, combos[k]) <= nm_distance(row, combos[q])})

\* np.argmin: the first index of the smallest value, 0-based; with a nan
\* magnitude every value is nan and the first index is returned
np_argmin(row, combos) ==
    IF row.isnan THEN 0
    ELSE SetMin({k \in DOMAIN combos :
                   \A q \in DOMAIN combos :
                       nm_distance(row, combos[k]) <= nm_distance(row, combos[q])}) - 1

AsmOthers == <<pvars, mvars, csp, dts, cld, lcg, cmo, gmo, acs>>

AsmInit ==
    /\ PairingIdle
    /\ MpaIdle
    /\ csp = <<>> /\ dts = <<>> /\ cld = <<>> /\ lcg = <<>>
    /\ cmo = <<>> /\ gmo = <<>> /\ acs = <<>>
    /\ \E inc \in BOOLEAN : \E a \in AsmCatalogues : \E grids \in NmGrids :
         /\ GridsMatch(a, grids)
         /\ inc = FALSE => grids = CHOOSE g \in NmGrids : TRUE
         /\ asm = [pc |-> "nearest", include_perturb_auf |-> inc, a |-> a,
                   grids |-> grids, i |-> 0,
                   arraylengths |-> arraylengths_of(grids), nm |-> <<>>,
                   modelrefinds |-> <<[s \in DOMAIN a |-> 0], [s \in DOMAIN a |-> 0],
                                      [s \in DOMAIN a |-> 0]>>,
                   error |-> "none"]

\* lines 265-273
NearestTiles ==
    /\ asm # <<>> /\ asm.pc = "nearest"
    /\ asm' = [asm EXCEPT !.pc = IF asm.include_perturb_auf THEN "fill" ELSE "rows",
                          !.modelrefinds[3] =
                              [s \in DOMAIN asm.a |-> find_nearest_point(asm.a[s].pos)]]
    /\ UNCHANGED AsmOthers

\* lines 429-447
FillArrays ==
    /\ asm # <<>> /\ asm.pc = "fill"
    /\ asm' = [asm EXCEPT !.pc = "loop",
                          !.nm = np_full_nm(asm.grids, asm.arraylengths)]
    /\ UNCHANGED AsmOthers

\* lines 461-468, one pass of the loop over the sources
AssignNmind ==
    /\ asm # <<>> /\ asm.pc = "loop"
    /\ asm.i < Len(asm.a)
    /\ LET s == asm.i + 1
           axind == asm.modelrefinds[3][s]
           filterind == asm.a[s].magref
           combos == nm_slice(asm.nm, asm.arraylengths, filterind, axind)
       IN  IF combos = NoCombos
           THEN asm' = [asm EXCEPT !.pc = "raised", !.error = "ValueError"]
           ELSE asm' = [asm EXCEPT !.i = @ + 1,
                                   !.modelrefinds[1][s] = np_argmin(asm.a[s], combos)]
    /\ UNCHANGED AsmOthers

\* the end of the loop of line 461
LoopDone ==
    /\ asm # <<>> /\ asm.pc = "loop"
    /\ asm.i = Len(asm.a)
    /\ asm' = [asm EXCEPT !.pc = "rows"]
    /\ UNCHANGED AsmOthers

\* lines 469-478: modelrefinds[0, :] = 0 without perturbation, and
\* modelrefinds[1, :] = magref
AssignFilters ==
    /\ asm # <<>> /\ asm.pc = "rows"
    /\ asm' = [asm EXCEPT !.pc = "returned",
                          !.modelrefinds[1] =
                              IF asm.include_perturb_auf THEN @
                              ELSE [s \in DOMAIN asm.a |-> 0],
                          !.modelrefinds[2] = [s \in DOMAIN asm.a |-> asm.a[s].magref]]
    /\ UNCHANGED AsmOthers

AsmNext ==
    \/ NearestTiles
    \/ FillArrays
    \/ AssignNmind
    \/ LoopDone
    \/ AssignFilters

SpecModelRefInds == AsmInit /\ [][AsmNext]_vars

C16_SquaredDistance(s, k) ==
    LET row == asm.a[s]
        combo == asm.grids[row.magref + 1][asm.modelrefinds[3][s] + 1][k + 1]
    IN  (row.localn - combo.n) * (row.localn - combo.n)
        + (row.mag - combo.m) * (row.mag - combo.m)

C16_Combinations(s) ==
    Len(asm.grids[asm.a[s].magref + 1][asm.modelrefinds[3][s] + 1])

\* C16: the returned model reference index has three rows of n_sources
\* entries; for every source, row 2 is the index of the nearest tile, row 1
\* is magref, and row 0 is the index of a combination of that filter and
\* tile whose squared density difference plus squared magnitude difference
\* is smallest (0, the single combination, without perturbation; stated for
\* sources whose magnitude in their magref filter is a number).
C16_ModelRefIndsNearest ==
    asm.pc = "returned" =>
        /\ Len(asm.modelrefinds) = 3
        /\ \A row \in 1 .. 3 : DOMAIN asm.modelrefinds[row] = DOMAIN asm.a
        /\ \A s \in DOMAIN asm.a :
            /\ asm.modelrefinds[3][s] \in 0 .. Len(auf_points) - 1
            /\ \A t \in DOMAIN auf_points :
                   Dist2(asm.a[s].pos, auf_points[asm.modelrefinds[3][s] + 1])
                       <= Dist2(asm.a[s].pos, auf_points[t])
            /\ asm.modelrefinds[2][s] = asm.a[s].magref
            /\ ~asm.include_perturb_auf => asm.modelrefinds[1][s] = 0
            /\ (asm.include_perturb_auf /\ ~asm.a[s].isnan) =>
                   /\ asm.modelrefinds[1][s] \in 0 .. C16_Combinations(s) - 1
                   /\ \A k \in 0 .. C16_Combinations(s) - 1 :
                          C16_SquaredDistance(s, asm.modelrefinds[1][s])
                              <= C16_SquaredDistance(s, k)

\* a source whose best combination is the third of its tile and filter,
\* next to one in the other tile
C16_Witness ==
    /\ asm.pc = "returned"
    /\ asm.include_perturb_auf
    /\ Len(asm.a) = 2
    /\ asm.modelrefinds[1][1] = 2
    /\ asm.modelrefinds[3][1] # asm.modelrefinds[3][2]
    /\ ~asm.a[2].isnan

C29_TrueLength(j, i) == Len(asm.grids[j][i])

\* C29: with include_perturb_auf True, arraylengths[filter, tile] is the
\* number of simulated combinations, narrays and magarrays hold the
\* simulated values below it and -1 at and beyond it, and for every source
\* with a magnitude in its best filter modelrefinds[0, i] is below
\* arraylengths[filter of i, tile of i], so the entry it addresses is not
\* padding.
C29_IndexBelowArrayLength ==
    /\ \A j \in DOMAIN asm.grids : \A i \in DOMAIN asm.grids[j] :
           asm.arraylengths[j][i] = C29_TrueLength(j, i)
    /\ (asm.include_perturb_auf /\ asm.pc \in {"loop", "rows", "returned"}) =>
        /\ \A j \in DOMAIN asm.grids : \A i \in DOMAIN asm.grids[j] :
               /\ Len(asm.nm[j][i]) >= C29_TrueLength(j, i)
               /\ \A k \in DOMAIN asm.nm[j][i] :
                      asm.nm[j][i][k] =
                          IF k <= C29_TrueLength(j, i) THEN asm.grids[j][i][k]
                          ELSE [n |-> -1, m |-> -1]
        /\ \A s \in 1 .. asm.i :
               ~asm.a[s].isnan =>
                   LET j == asm.a[s].magref + 1
                       i == asm.modelrefinds[3][s] + 1
                   IN  /\ asm.modelrefinds[1][s] >= 0
                       /\ asm.modelrefinds[1][s] < C29_TrueLength(j, i)
                       /\ asm.nm[j][i][asm.modelrefinds[1][s] + 1] # [n |-> -1, m |-> -1]

\* a source assigned the last of the two combinations of a filter and tile
\* whose third entry in narrays and magarrays is padding
C29_Witness ==
    /\ asm.pc = "returned"
    /\ asm.include_perturb_auf
    /\ \E s \in DOMAIN asm.a :
           LET j == asm.a[s].magref + 1
               i == asm.modelrefinds[3][s] + 1
           IN  /\ ~asm.a[s].isnan
               /\ asm.modelrefinds[1][s] = 1
               /\ Len(asm.grids[j][i]) = 2
               /\ Len(asm.nm[j][i]) = 3
               /\ asm.nm[j][i][3] = [n |-> -1, m |-> -1]

(***************************************************************************)
(* _load_cumulative_grid_cutouts (group_sources.py), the grid cutout of    *)
(* the grouping stage.  The function is not part of the files modelled     *)
(* above; it is modelled from its contract (the rows inside the padded     *)
(* rectangle, the grid cut down to the indices those rows use on each      *)
(* axis, and the model reference index re-expressed in the cut-down grid)  *)
(* and from the catalogue, grid and results of                             *)
(* test_load_cumulative_grid_cutouts.  Coordinates are in hundredths of a  *)
(* degree.                                                                 *)
(***************************************************************************)
\* largest catalogue explored besides the one of the test
MaxCutoutSources == 2

\* rect = np.array([40, 60, 40, 60])
rect == [ax1_min |-> 4000, ax1_max |-> 6000, ax2_min |-> 4000, ax2_max |-> 6000]

\* the paddings of the test, 0.1 and 0, and a larger one
Paddings == {0, 10, 150}

\* grid[:, i, j, k] = i + j*2 + k*6, for 2 combinations, 3 filters, 2 tiles
grid(i, j, k) == i + j * 2 + k * 6

\* the four sources of the test that are not at the origin, and their
\* model reference indices
TestCatalogue ==
    << [pos |-> <<5000, 5000>>, ref |-> <<0, 2, 1>>],
       [pos |-> <<4800, 5900>>, ref |-> <<0, 2, 1>>],
       [pos |-> <<3998, 4300>>, ref |-> <<0, 1, 0>>],
       [pos |-> <<4500, 4500>>, ref |-> <<0, 2, 1>>] >>

\* one row: a position in or around rect, and a model reference index
CutoutRows ==
    [pos : {<<5000, 5000>>, <<3998, 4300>>, <<3980, 4300>>, <<6005, 5900>>, <<0, 0>>},
     ref : {<<0, 2, 1>>, <<0, 1, 0>>, <<1, 0, 0>>}]

CutoutCatalogues ==
    {TestCatalogue} \cup UNION {[1 .. n -> CutoutRows] : n \in 0 .. MaxCutoutSources}

in_rect_shrunk_above(pos, padding) ==
    /\ pos[1] >= rect.ax1_min - padding /\ pos[1] <= rect.ax1_max - padding
    /\ pos[2] >= rect.ax2_min - padding /\ pos[2] <= rect.ax2_max - padding

\* the row lies in the rectangle widened by padding on every side
in_padded_rect(pos, padding) ==
    /\ pos[1] >= rect.ax1_min - padding /\ pos[1] <= rect.ax1_max + padding
    /\ pos[2] >= rect.ax2_min - padding /\ pos[2] <= rect.ax2_max + padding

\* the rows kept, in catalogue order
RECURSIVE KeptRows(_, _, _)
KeptRows(a, padding, from) ==
    IF from > Len(a) THEN <<>>
    ELSE (IF in_padded_rect(a[from].pos, padding) THEN <<from>> ELSE <<>>)
         \o KeptRows(a, padding, from + 1)

\* the sorted indices the kept rows use on one axis
UniqueRefs(a, kept, axis) == SortedSeq({a[kept[k]].ref[axis] : k \in DOMAIN kept})

index_kept(uniq, v) == v

\* the place of an index among the sorted indices in use, 0-based
index_in_cutout(uniq, v) == (CHOOSE k \in DOMAIN uniq : uniq[k] = v) - 1

load_cumulative_grid_cutouts(a, padding) ==
    LET kept == KeptRows(a, padding, 1)
        u == [axis \in 1 .. 3 |-> UniqueRefs(a, kept, axis)]
    IN  [kept |-> kept,
         a |-> [k \in DOMAIN kept |-> a[kept[k]].pos],
         b |-> [i \in DOMAIN u[1] |-> [j \in DOMAIN u[2] |-> [k \in DOMAIN u[3] |->
                   grid(u[1][i], u[2][j], u[3][k])]]],
         c |-> [axis \in 1 .. 3 |->
                   [k \in DOMAIN kept |-> index_in_cutout(u[axis], a[kept[k]].ref[axis])]]]

LcgOthers == <<pvars, mvars, csp, dts, cld, asm, cmo, gmo, acs>>

LcgInit ==
    /\ PairingIdle
    /\ MpaIdle
    /\ csp = <<>> /\ dts = <<>> /\ cld = <<>> /\ asm = <<>>
    /\ cmo = <<>> /\ gmo = <<>> /\ acs = <<>>
    /\ \E a \in CutoutCatalogues :
         lcg = [a |-> a, called |-> {}, out |-> [p \in Paddings |-> <<>>]]

\* one call of the function on the catalogue, with a padding not yet tried
LoadCutout ==
    /\ lcg # <<>>
    /\ \E padding \in Paddings \ lcg.called :
         lcg' = [lcg EXCEPT !.called = @ \cup {padding},
                            !.out[padding] = load_cumulative_grid_cutouts(lcg.a, padding)]
    /\ UNCHANGED LcgOthers

LcgNext == LoadCutout

SpecGridCutouts == LcgInit /\ [][LcgNext]_vars

\* the grid columns of a cutout
C19_Columns(b) ==
    UNION {UNION {{b[i][j][k] : k \in DOMAIN b[i][j]} : j \in DOMAIN b[i]} :
              i \in DOMAIN b}

C19_InExactRect(pos) ==
    pos[1] >= 4000 /\ pos[1] <= 6000 /\ pos[2] >= 4000 /\ pos[2] <= 6000

C20_CutoutAgreesWithGrid ==
    /\ \A p \in lcg.called :
          LET o == lcg.out[p]
          IN  \A k \in DOMAIN o.kept :
                  /\ o.c[1][k] \in 0 .. Len(o.b) - 1
                  /\ o.c[2][k] \in 0 .. Len(o.b[1]) - 1
                  /\ o.c[3][k] \in 0 .. Len(o.b[1][1]) - 1
                  /\ o.b[o.c[1][k] + 1][o.c[2][k] + 1][o.c[3][k] + 1]
                         = grid(lcg.a[o.kept[k]].ref[1], lcg.a[o.kept[k]].ref[2],
                                lcg.a[o.kept[k]].ref[3])
    /\ (10 \in lcg.called /\ lcg.a = TestCatalogue) =>
          /\ lcg.out[10].b = << << <<2, 8>>, <<4, 10>> >> >>
          /\ lcg.out[10].c = << <<0, 0, 0, 0>>, <<1, 1, 0, 1>>, <<1, 1, 0, 1>> >>

\* a cutout in which a row's remapped indices differ from its original ones
C20_Witness ==
    \E p \in lcg.called : \E k \in DOMAIN lcg.out[p].kept :
        /\ Len(lcg.out[p].kept) >= 2
        /\ lcg.a[lcg.out[p].kept[k]].ref = <<0, 2, 1>>
        /\ lcg.out[p].c[2][k] = 1
        /\ lcg.out[p].c[3][k] = 1

(***************************************************************************)
(* _calculate_magnitude_offsets (perturbation_auf.py:1213-1278), on its    *)
(* own.  Magnitudes are whole numbers, the signal-to-noise ratio is kept   *)
(* as snr / b, a power of 100, and the expected number of perturbers of a  *)
(* model bin at unit density is a whole number.                            *)
(***************************************************************************)
\* longest mag_array given to _calculate_magnitude_offsets
MaxMagnitudes == 2
\* number of model magnitude bins
MaxModelBins == 3
\* -np.log(0.01) = 4.605...: among whole numbers, lamb >= -np.log(0.01)
\* exactly when lamb >= 5 (perturbation_auf.py:1268)
NoPerturbLambda == 5

\* model_mag_mids, ascending
model_mag_mids == [k \in 1 .. MaxModelBins |-> k]

\* one entry of mag_array with its count_array and snr entries
MagnitudeRows == [mag : {1, 3, 5}, count : {1, 2}, snr_over_b : {1, 100}]

\* 10**log10y * model_mags_interval * np.pi * (r/3600)**2 / n_norm per bin
BinCounts == [1 .. MaxModelBins -> {0, 2, 3}]

RECURSIVE log10(_)
\* np.log10 of a power of ten
log10(x) == IF x < 10 THEN 0 ELSE 1 + log10(x \div 10)

\* flim = b / snr; dm_max_snr = -2.5 * np.log10(flim)
dm_max_snr(snr_over_b) == (5 * log10(snr_over_b)) \div 2

\* np.cumsum
cumsum(y) == [n \in DOMAIN y |-> SeqSum(SubSeq(y, 1, n))]

\* lines 1255-1274 for one magnitude: the offset, or the IndexError of
\* _x[-1] on an empty _x
no_perturb_offset(row, y) ==
    LET q == [k \in DOMAIN model_mag_mids |-> model_mag_mids[k] >= row.mag]
        x == BoolIndex(model_mag_mids, q)
        lamb == cumsum(BoolIndex([k \in DOMAIN y |-> y[k] * row.count], q))
        reached == {n \in DOMAIN lamb : lamb[n] >= NoPerturbLambda}
    IN  IF reached # {}
        THEN [kind |-> "value", dm |-> x[SetMin(reached)] - row.mag]
        ELSE IF x = <<>>
        THEN [kind |-> "IndexError", dm |-> 0]
        ELSE [kind |-> "value", dm |-> x[Len(x)] - row.mag]

\* np.maximum
np_maximum(a, b) == [i \in DOMAIN a |-> Max2(a[i], b[i])]

CmoOthers == <<pvars, mvars, csp, dts, cld, asm, lcg, gmo, acs>>

CmoInit ==
    /\ PairingIdle
    /\ MpaIdle
    /\ csp = <<>> /\ dts = <<>> /\ cld = <<>> /\ asm = <<>> /\ lcg = <<>>
    /\ gmo = <<>> /\ acs = <<>>
    /\ \E n \in 1 .. MaxMagnitudes : \E rows \in [1 .. n -> MagnitudeRows] :
       \E y \in BinCounts :
         cmo = [pc |-> "snr", rows |-> rows, y |-> y, dm_max_snr |-> <<>>,
                i |-> 0, dm_max_no_perturb |-> <<>>, dm |-> <<>>,
                error |-> "none"]

\* lines 1250-1253
SnrOffsets ==
    /\ cmo # <<>> /\ cmo.pc = "snr"
    /\ cmo' = [cmo EXCEPT
           !.pc = "loop",
           !.dm_max_snr = [i \in DOMAIN cmo.rows |->
                              dm_max_snr(cmo.rows[i].snr_over_b)]]
    /\ UNCHANGED CmoOthers

\* lines 1254-1274, one pass of the loop over mag_array
NoPerturbOffset ==
    /\ cmo # <<>> /\ cmo.pc = "loop"
    /\ cmo.i < Len(cmo.rows)
    /\ LET out == no_perturb_offset(cmo.rows[cmo.i + 1], cmo.y)
       IN  IF out.kind = "IndexError"
           THEN cmo' = [cmo EXCEPT !.pc = "raised", !.error = "IndexError"]
           ELSE cmo' = [cmo EXCEPT !.i = @ + 1,
                                   !.dm_max_no_perturb = Append(@, out.dm)]
    /\ UNCHANGED CmoOthers

\* lines 1276-1278
ReturnMaximum ==
    /\ cmo # <<>> /\ cmo.pc = "loop"
    /\ cmo.i = Len(cmo.rows)
    /\ cmo' = [cmo EXCEPT !.pc = "returned",
                          !.dm = np_maximum(cmo.dm_max_snr, cmo.dm_max_no_perturb)]
    /\ UNCHANGED CmoOthers

CmoNext ==
    \/ SnrOffsets
    \/ NoPerturbOffset
    \/ ReturnMaximum

SpecMagnitudeOffsets == CmoInit /\ [][CmoNext]_vars

\* the model bins at or fainter than magnitude i
C23_Fainter(i) ==
    {k \in DOMAIN model_mag_mids : model_mag_mids[k] >= cmo.rows[i].mag}

\* the expected number of perturbers from the source magnitude down to bin k
C23_Expected(i, k) ==
    SeqSum([j \in 1 .. k |->
               IF j \in C23_Fainter(i) THEN cmo.y[j] * cmo.rows[i].count ELSE 0])

\* the no-perturber offset as the claim words it
C23_NoPerturb(i) ==
    LET reach == {k \in C23_Fainter(i) : C23_Expected(i, k) >= NoPerturbLambda}
    IN  IF reach # {}
        THEN model_mag_mids[SetMin(reach)] - cmo.rows[i].mag
        ELSE model_mag_mids[Len(model_mag_mids)] - cmo.rows[i].mag

C23_Returned ==
    cmo.pc = "returned" =>
        /\ Len(cmo.dm) = Len(cmo.rows)
        /\ \A i \in DOMAIN cmo.rows :
               /\ cmo.dm[i] = Max2(cmo.dm_max_snr[i], C23_NoPerturb(i))
               /\ cmo.dm[i] >= cmo.dm_max_snr[i]
               /\ cmo.dm[i] >= C23_NoPerturb(i)

\* C23: the function returns for every (density, magnitude) combination,
\* and what it returns for each is the larger of the SNR-derived offset and
\* the no-perturber offset: the distance to the first model bin at or
\* fainter than the source at which the cumulative expected perturber count
\* reaches -ln(0.01), or to the faintest model bin when no bin reaches it.
C23_LargerOfTwoOffsets ==
    /\ cmo.pc # "raised"
    /\ C23_Returned

(***************************************************************************)
(* get_max_overlap (group_sources_fortran), from the grouping section of   *)
(* the specification and test_get_max_overlap_fortran                      *)
(* (test_group_sources.py:108-159).  Positions and uncertainties are whole *)
(* numbers of 0.005 arcseconds on a flat sky; the AUF of a source is its   *)
(* Gaussian astrometric uncertainty (the Fourier grids of the test are     *)
(* flat), so the convolution of two AUFs integrated out to a separation d  *)
(* holds 1 - exp(-d^2 / (2 (sa^2 + sb^2))) of the probability.             *)
(***************************************************************************)
\* largest catalogue of the enumerated inputs of get_max_overlap
MaxOverlapSources == 2
\* max_sep = 0.25 arcseconds (test_group_sources.py:132)
max_sep == 50
\* max_frac = 0.99 (test_group_sources.py:133): the integral stays below
\* it while d^2 < -2 ln(0.01) (sa^2 + sb^2), here in hundredths
max_frac_reach == 921

\* the catalogues of the test, relative to (10, 0) degrees, a_axerr and
\* b_axerr = 0.03 arcseconds
TestOverlapCatalogues ==
    LET a_position == <<
        <<8, 14>>, <<215994, -12>>, <<359980, -4>>, <<503986, 12>>,
        <<647998, 4>>, <<0, 360002>>, <<215996, 359997>>,
        <<359980, 360002>>, <<504016, 359996>>, <<647990, 360010>>,
        <<4, 719998>>, <<215998, 719998>>, <<360006, 720000>>,
        <<504004, 720004>>, <<647998, 719994>>, <<0, 2160000>>,
        <<216000, 2160000>>, <<360000, 2160000>>, <<8, -4>>,
        <<359994, 720016>> >>
        b_position == <<
        <<0, 0>>, <<216000, 0>>, <<360000, 0>>, <<504000, 0>>,
        <<648000, 0>>, <<0, 360000>>, <<216000, 360000>>,
        <<360000, 360000>>, <<504000, 360000>>, <<648000, 360000>>,
        <<0, 720000>>, <<216000, 720000>>, <<360000, 720000>>,
        <<504000, 720000>>, <<648000, 720000>>, <<-1440000, 0>>,
        <<-720000, 0>>, <<360010, 719994>>, <<504006, 8>> >>
    IN  [a |-> [i \in DOMAIN a_position |-> [pos |-> a_position[i], axerr |-> 6]],
         b |-> [j \in DOMAIN b_position |-> [pos |-> b_position[j], axerr |-> 6]]]

\* one source: its position and its astrometric uncertainty
OverlapRows ==
    [pos : {<<0, 0>>, <<8, 0>>, <<20, 0>>, <<0, 60>>}, axerr : {3, 20}]

OverlapCatalogues == UNION {[1 .. n -> OverlapRows] : n \in 0 .. MaxOverlapSources}

overlap_own_error(p, q) ==
    LET dx == p.pos[1] - q.pos[1]
        dy == p.pos[2] - q.pos[2]
    IN  /\ dx <= max_sep /\ -dx <= max_sep
        /\ dy <= max_sep /\ -dy <= max_sep
        /\ dx * dx + dy * dy <= max_sep * max_sep
        /\ 100 * (dx * dx + dy * dy) < max_frac_reach * (2 * p.axerr * p.axerr)

\* two sources overlap when they are within max_sep of each other and the
\* convolution of their AUFs, integrated out to their separation, holds
\* less than max_frac of the probability
overlap(p, q) ==
    LET dx == p.pos[1] - q.pos[1]
        dy == p.pos[2] - q.pos[2]
    IN  /\ dx <= max_sep /\ -dx <= max_sep
        /\ dy <= max_sep /\ -dy <= max_sep
        /\ dx * dx + dy * dy <= max_sep * max_sep
        /\ 100 * (dx * dx + dy * dy)
               < max_frac_reach * (p.axerr * p.axerr + q.axerr * q.axerr)

\* a_num and b_num: each catalogue is looped over and the sources of the
\* other catalogue that overlap the source are counted
get_max_overlap(a, b) ==
    [a_num |-> [i \in DOMAIN a |->
                   Cardinality({j \in DOMAIN b : overlap(a[i], b[j])})],
     b_num |-> [j \in DOMAIN b |->
                   Cardinality({i \in DOMAIN a : overlap(b[j], a[i])})]]

GmoOthers == <<pvars, mvars, csp, dts, cld, asm, lcg, cmo, acs>>

GmoInit ==
    /\ PairingIdle
    /\ MpaIdle
    /\ csp = <<>> /\ dts = <<>> /\ cld = <<>> /\ asm = <<>> /\ lcg = <<>>
    /\ cmo = <<>> /\ acs = <<>>
    /\ \/ \E a \in OverlapCatalogues, b \in OverlapCatalogues :
            gmo = [pc |-> "call", a |-> a, b |-> b, a_num |-> <<>>, b_num |-> <<>>]
       \/ gmo = [pc |-> "call", a |-> TestOverlapCatalogues.a,
                 b |-> TestOverlapCatalogues.b, a_num |-> <<>>, b_num |-> <<>>]

\* a_num, b_num = gsf.get_max_overlap(...)
GetMaxOverlap ==
    /\ gmo # <<>> /\ gmo.pc = "call"
    /\ LET out == get_max_overlap(gmo.a, gmo.b)
       IN  gmo' = [gmo EXCEPT !.pc = "done", !.a_num = out.a_num,
                              !.b_num = out.b_num]
    /\ UNCHANGED GmoOthers

GmoNext == GetMaxOverlap

SpecMaxOverlap == GmoInit /\ [][GmoNext]_vars

\* the overlap relation between source i of catalogue a and source j of
\* catalogue b
C21_Overlap(i, j) == overlap(gmo.a[i], gmo.b[j])

\* C21: a_num[i] is the number of catalogue b sources that overlap a source
\* i and b_num[j] the number of catalogue a sources that overlap b source
\* j, under one and the same overlap relation; a source that overlaps
\* nothing gets 0, and the sum of a_num equals the sum of b_num.
C21_CountsFromBothSides ==
    gmo.pc = "done" =>
        /\ DOMAIN gmo.a_num = DOMAIN gmo.a
        /\ DOMAIN gmo.b_num = DOMAIN gmo.b
        /\ \A i \in DOMAIN gmo.a :
               /\ gmo.a_num[i] = Cardinality({j \in DOMAIN gmo.b : C21_Overlap(i, j)})
               /\ (\A j \in DOMAIN gmo.b : ~C21_Overlap(i, j)) => gmo.a_num[i] = 0
        /\ \A j \in DOMAIN gmo.b :
               /\ gmo.b_num[j] = Cardinality({i \in DOMAIN gmo.a : C21_Overlap(i, j)})
               /\ (\A i \in DOMAIN gmo.a : ~C21_Overlap(i, j)) => gmo.b_num[j] = 0
        /\ SeqSum(gmo.a_num) = SeqSum(gmo.b_num)

\* the counts the test expects of its 20 and 19 sources
C21_Witness ==
    /\ gmo.pc = "done"
    /\ gmo.a_num = <<1, 1, 1, 2, 1, 1, 1, 1, 1, 1, 1, 1, 2, 1, 1, 0, 0, 0, 1, 1>>
    /\ gmo.b_num = <<2, 1, 1, 1, 1, 1, 1, 1, 1, 1, 1, 1, 2, 1, 1, 0, 0, 1, 1>>

(***************************************************************************)
(* AstrometricCorrections (fit_astrometry), its argument checks, from the  *)
(* specification and test_fit_astrometry_load_errors                       *)
(* (test_fit_astrometry.py:90-222).  An argument is kept as the text of    *)
(* its value; "x" stands for any value that is none of the accepted ones.  *)
(* The checks are taken in the order in which the test provokes them.      *)
(***************************************************************************)
\* the keyword arguments of the constructor that the checks read; chunks
\* and the mids by their lengths, chunks = 0 for None
AcArgs ==
    [single_sided_auf : BOOLEAN,
     ax_dimension : {"1", "2", "3", "A"},
     npy_or_csv : {"npy", "csv", "x"},
     coord_or_chunk : {"coord", "chunk", "x"},
     coord_system : {"equatorial", "galactic", "x"},
     pregenerate_cutouts : {"True", "False", "x"},
     chunks : 0 .. 2, ax1_mids : 1 .. 2, ax2_mids : 1 .. 2,
     cutout_area : BOOLEAN, cutout_height : BOOLEAN]

\* the checks of the constructor, in order: the argument each names
AcChecks ==
    <<"single_sided_auf", "ax_dimension", "npy_or_csv", "coord_or_chunk",
      "chunks", "ax_dimension_chunk", "chunk_lengths", "coord_system",
      "pregenerate_cutouts", "cutout_area", "cutout_height">>

\* whether check k raises on the arguments v
ac_check_fails(k, v) ==
    CASE AcChecks[k] = "single_sided_auf" -> ~v.single_sided_auf
      [] AcChecks[k] = "ax_dimension" -> v.ax_dimension \notin {"1", "2"}
      [] AcChecks[k] = "npy_or_csv" -> v.npy_or_csv \notin {"npy", "csv"}
      [] AcChecks[k] = "coord_or_chunk" -> v.coord_or_chunk \notin {"coord", "chunk"}
      [] AcChecks[k] = "chunks" -> v.coord_or_chunk = "chunk" /\ v.chunks = 0
      [] AcChecks[k] = "ax_dimension_chunk" ->
             v.coord_or_chunk = "chunk" /\ v.ax_dimension = "1"
      [] AcChecks[k] = "chunk_lengths" ->
             v.coord_or_chunk = "chunk" /\
                 (v.ax1_mids # v.ax2_mids \/ v.ax1_mids # v.chunks)
      [] AcChecks[k] = "coord_system" ->
             v.coord_system \notin {"equatorial", "galactic"}
      [] AcChecks[k] = "pregenerate_cutouts" ->
             v.pregenerate_cutouts \notin {"True", "False"}
      [] AcChecks[k] = "cutout_area" ->
             v.pregenerate_cutouts = "False" /\ ~v.cutout_area
      [] AcChecks[k] = "cutout_height" ->
             v.pregenerate_cutouts = "False" /\ ~v.cutout_height

\* the first check that raises, 0 if none does
first_ac_error(v) ==
    LET failing == {k \in DOMAIN AcChecks : ac_check_fails(k, v)}
    IN  IF failing = {} THEN 0 ELSE SetMin(failing)

missing_file_b_first(a_exists, b_exists) ==
    IF ~b_exists THEN "b_cat_name" ELSE IF ~a_exists THEN "a_cat_name" ELSE "none"

\* the first cutout file found missing: catalogue a is looked for first
missing_file(a_exists, b_exists) ==
    IF ~a_exists THEN "a_cat_name" ELSE IF ~b_exists THEN "b_cat_name" ELSE "none"

AcsOthers == <<pvars, mvars, csp, dts, cld, asm, lcg, cmo, gmo>>

AcsInit ==
    /\ PairingIdle
    /\ MpaIdle
    /\ csp = <<>> /\ dts = <<>> /\ cld = <<>> /\ asm = <<>> /\ lcg = <<>>
    /\ cmo = <<>> /\ gmo = <<>>
    /\ \E v \in AcArgs :
         acs = [pc |-> "new", args |-> v, called |-> FALSE,
                files |-> [a |-> FALSE, b |-> FALSE],
                funcs |-> [a |-> FALSE, b |-> FALSE],
                reads |-> <<>>, error |-> NoError]

\* AstrometricCorrections(**kwargs)
Construct ==
    /\ acs # <<>> /\ acs.pc = "new"
    /\ LET e == first_ac_error(acs.args)
       IN  IF e # 0
           THEN acs' = [acs EXCEPT !.pc = "raised",
                                   !.error = [type |-> "ValueError",
                                              param |-> AcChecks[e]]]
           ELSE acs' = [acs EXCEPT !.pc = "constructed"]
    /\ UNCHANGED AcsOthers

\* ac(a_cat_name, b_cat_name, a_cat_func, b_cat_func, ...): with
\* pregenerate_cutouts the two cutout files must exist, without it the two
\* functions must be given; only then are the catalogues read
Call ==
    /\ acs # <<>> /\ acs.pc = "constructed"
    /\ \E a_exists, b_exists, a_func, b_func \in BOOLEAN :
         LET missing == IF acs.args.pregenerate_cutouts = "True"
                        THEN missing_file(a_exists, b_exists)
                        ELSE IF ~a_func THEN "a_cat_func"
                        ELSE IF ~b_func THEN "b_cat_func"
                        ELSE "none"
         IN  acs' = [acs EXCEPT
                 !.called = TRUE,
                 !.files = [a |-> a_exists, b |-> b_exists],
                 !.funcs = [a |-> a_func, b |-> b_func],
                 !.pc = IF missing = "none" THEN "reading" ELSE "raised",
                 !.error = IF missing = "none" THEN @
                           ELSE [type |-> "ValueError", param |-> missing],
                 !.reads = IF missing = "none"
                           THEN <<"a_cat_name", "b_cat_name">> ELSE @]
    /\ UNCHANGED AcsOthers

AcsNext ==
    \/ Construct
    \/ Call

SpecAstrometricCorrections == AcsInit /\ [][AcsNext]_vars

\* the configurations the claim lists as rejected
C22_Invalid(v) ==
    \/ v.ax_dimension \notin {"1", "2"}
    \/ v.npy_or_csv \notin {"npy", "csv"}
    \/ v.coord_or_chunk \notin {"coord", "chunk"}
    \/ v.coord_system \notin {"equatorial", "galactic"}
    \/ v.pregenerate_cutouts \notin {"True", "False"}
    \/ /\ v.coord_or_chunk = "chunk"
       /\ \/ v.chunks = 0
          \/ v.ax_dimension = "1"
          \/ ~(v.ax1_mids = v.ax2_mids /\ v.ax2_mids = v.chunks)
    \/ /\ v.pregenerate_cutouts = "False"
       /\ ~(v.cutout_area /\ v.cutout_height)

\* C22: once the constructor has run on a configuration the list above
\* rejects, it has raised a ValueError, the object was never called and no
\* catalogue was read; and a call with pregenerate_cutouts True for which a
\* cutout file is missing has raised a ValueError naming the file of
\* catalogue a if that is missing and the file of catalogue b otherwise,
\* again with no catalogue read.
C22_EagerValidation ==
    /\ (acs.pc # "new" /\ C22_Invalid(acs.args)) =>
           /\ acs.pc = "raised"
           /\ acs.error.type = "ValueError"
           /\ ~acs.called
           /\ acs.reads = <<>>
    /\ (/\ acs.called
        /\ acs.args.pregenerate_cutouts = "True"
        /\ ~(acs.files.a /\ acs.files.b)) =>
           /\ acs.pc = "raised"
           /\ acs.error = [type |-> "ValueError",
                           param |-> IF ~acs.files.a THEN "a_cat_name"
                                     ELSE "b_cat_name"]
           /\ acs.reads = <<>>

\* a chunk-mode configuration passed the constructor and the call then
\* found both cutout files missing
C22_Witness ==
    /\ acs.pc = "raised"
    /\ acs.called
    /\ acs.args.coord_or_chunk = "chunk"
    /\ acs.args.chunks = 2
    /\ acs.args.pregenerate_cutouts = "True"
    /\ ~acs.files.a /\ ~acs.files.b
    /\ acs.error.param = "a_cat_name"
====
